---- MODULE Spec2Model ----
(***************************************************************************)
(* Model of pocket-doc's extraction engine: the four dialect adapters      *)
(* (Oracle, MySQL, PostgreSQL, MSSQL), their ExtractSchema orchestrator,   *)
(* the schema filter, the constraint resolver, signature synthesis and the *)
(* model validator (validateNoSourceCodeFields).                           *)
(*                                                                         *)
(* The database is modelled by a catalog value; every catalog query of the *)
(* adapters is an operator over that catalog that returns the rows the     *)
(* query's SQL selects, or an error when the query fails.                  *)
(***************************************************************************)
EXTENDS Integers, Sequences, FiniteSets, TLC

VARIABLES
    adapter,       \* dialect of the Extractor under test
    config,        \* the Config the factory was given
    schemaFilter,  \* Extractor.schemaFilter as left by NewExtractor
    catalog,       \* the database's catalog (environment)
    failQ,         \* the catalog query kind the database rejects ("none": none)
    rowOrder,      \* natural row order of queries without ORDER BY
    cancelled,     \* the caller's context has been cancelled
    mode,          \* what this run exercises: "extract", "validate", "cli",
                   \* "lifecycle", "export" or "serve"
    pc,            \* position inside ExtractSchema / the validator / main
    schema,        \* the *model.Schema under assembly
    trace,         \* the steps ExtractSchema has invoked so far, in order
    ret,           \* ExtractSchema's return value, once pc = "returned"
    inspected,     \* validator: structs of schema.go already inspected
    violations,    \* validator: forbidden fields found so far
    db,            \* the adapter's handle e.db: "nil", "open" or "closed"
    closeCalls,    \* calls of Close made on the adapter so far
    exitCode,      \* Nil while the process runs, then Ptr(its exit status)
    exporter,      \* the Exporter NewExporter returned: Nil or Ptr(it)
    written,       \* what Export has written to its io.Writer, in order
    requests       \* the HTTP requests of the preview server, by request id

vars == <<adapter, config, schemaFilter, catalog, failQ, rowOrder, cancelled, mode,
          pc, schema, trace, ret, inspected, violations, db, closeCalls, exitCode,
          exporter, written, requests>>

(***************************************************************************)
(* Bounds of the model.                                                    *)
(***************************************************************************)
\* largest number of arguments of a catalog routine
MaxArgs == 2

\* largest number of Connect and Close calls a user of an adapter makes
MaxCalls == 3

(***************************************************************************)
(* Generic helpers.                                                        *)
(***************************************************************************)
Range(s) == {s[i] : i \in 1..Len(s)}

Reverse(s) == [i \in 1..Len(s) |-> s[Len(s) + 1 - i]]

RECURSIVE Concat(_)
Concat(ss) == IF ss = <<>> THEN <<>> ELSE Head(ss) \o Concat(Tail(ss))

RECURSIVE JoinStr(_, _)
JoinStr(strs, sep) ==
    IF strs = <<>> THEN ""
    ELSE IF Len(strs) = 1 THEN strs[1]
    ELSE strs[1] \o sep \o JoinStr(Tail(strs), sep)

\* Go values: a nil error, a NULL column, a nil pointer
NoErr == <<>>
NULL == "<NULL>"
\* a pointer: Nil, or <<v>> pointing at v
Nil == <<>>
Ptr(v) == <<v>>

\* error wrapping of fmt.Errorf("msg: %w", err): outermost message first
Wrap(msg, err) == <<msg>> \o err

\* a Go slice built by `var s []T` and append: nil exactly when nothing was appended
Slice(elems) == [isNil |-> elems = <<>>, elems |-> elems]
\* the literal []T{}: empty and non-nil
EmptySlice == [isNil |-> FALSE, elems |-> <<>>]
NilSlice == [isNil |-> TRUE, elems |-> <<>>]

Ok(v) == [val |-> v, err |-> NoErr]
Fail(err) == [val |-> NilSlice, err |-> err]
\* the same for the unexported helpers, whose lists are kept as plain sequences
FailSeq(err) == [val |-> <<>>, err |-> err]

(***************************************************************************)
(* The catalog: what the database's metadata views hold.  Object lists are *)
(* kept in (owner, name) order, the order an ORDER BY owner, name query    *)
(* returns; queries without ORDER BY return them in the natural order.     *)
(***************************************************************************)
Adapters == {"oracle", "mysql", "postgres", "mssql"}

\* owners present in the catalog, in collation order
CatalogOwners == <<"HR", "SYS", "dbo", "public">>

\* connection configuration: config.Database and config.Username
CfgDatabase == "HR"
CfgUsername == "HR"

\* configured schema filters (config.SchemaFilter)
SchemaFilters == {<<>>, <<"HR">>, <<"HR", "dbo">>}

\* source texts a view definition, routine body or trigger body may hold
BodyTexts == {"SELECT ID FROM EMP", "SELECT ID FROM EMP /* INSTEAD OF */"}

\* what the catalog declares about column EMP.MGR_ID.  fk_hidden: the referenced
\* constraint is not visible to the caller (Oracle's LEFT JOIN yields NULLs);
\* fk_nocol: the caller may not read the referenced column's metadata (SQL
\* Server's COL_NAME then yields NULL)
ColKinds == {"plain", "mul", "fk", "fk_hidden", "fk_nocol", "fk2", "fkpair"}

Fk(name, refOwner, refTable, refCols, pos, visible) ==
    [name |-> name, refOwner |-> refOwner, refTable |-> refTable,
     refCols |-> refCols, pos |-> pos, visible |-> visible, colVisible |-> TRUE]

\* foreign-key constraints on EMP.MGR_ID, in the catalog's row order
FksOf(owner, kind) ==
    CASE kind = "fk"        -> <<Fk("FK_EMP_MGR", owner, "EMP", <<"ID">>, 1, TRUE)>>
      [] kind = "fk_hidden" -> <<Fk("FK_EMP_MGR", owner, "EMP", <<"ID">>, 1, FALSE)>>
      [] kind = "fk_nocol"  -> <<[Fk("FK_EMP_MGR", owner, "EMP", <<"ID">>, 1, TRUE)
                                     EXCEPT !.colVisible = FALSE]>>
      [] kind = "fk2"       -> <<Fk("FK_EMP_MGR", owner, "EMP", <<"ID">>, 1, TRUE),
                                 Fk("FK_EMP_BADGE", owner, "EMP", <<"BADGE">>, 1, TRUE)>>
      [] kind = "fkpair"    -> <<Fk("FK_EMP_PAIR", owner, "EMP", <<"ID", "BADGE">>, 2, TRUE)>>
      [] OTHER              -> <<>>

\* foreign-key constraints on EMP.ID: the composite FK_EMP_PAIR (ID, MGR_ID)
\* REFERENCES EMP (ID, BADGE) has ID as its first column, MGR_ID as its second
LeadFksOf(owner, kind) ==
    IF kind = "fkpair"
    THEN <<Fk("FK_EMP_PAIR", owner, "EMP", <<"ID", "BADGE">>, 1, TRUE)>>
    ELSE <<>>

CatColumn(name, pos, dataType, pk, fks, uniq, mul) ==
    [name |-> name, position |-> pos, dataType |-> dataType, pk |-> pk,
     fks |-> fks, uniq |-> uniq, mul |-> mul]

CatIndex(name, type, unique, primary, keys) ==
    [name |-> name, type |-> type, unique |-> unique, primary |-> primary,
     keys |-> keys, included |-> <<>>]

\* key rows are stored out of key order: the ordinal field carries the order
CatTable(owner, kind) ==
    [owner |-> owner, name |-> "EMP", comment |-> "employees", rowCount |-> 3,
     cols |-> <<CatColumn("ID", 1, "NUMBER", TRUE, LeadFksOf(owner, kind), 0, FALSE),
                CatColumn("MGR_ID", 2, "NUMBER", FALSE, FksOf(owner, kind), 0,
                          kind # "plain"),
                CatColumn("BADGE", 3, "VARCHAR2", FALSE, <<>>, 1, FALSE)>>,
     indexes |->
        (IF kind = "plain" THEN <<>>
         ELSE <<CatIndex("IX_EMP_MGR", "NORMAL", FALSE, FALSE,
                         <<[col |-> "ID", ordinal |-> 2],
                           [col |-> "MGR_ID", ordinal |-> 1]>>)>>)
        \o <<CatIndex("PK_EMP", "NORMAL", TRUE, TRUE,
                      <<[col |-> "ID", ordinal |-> 1]>>),
             CatIndex("UQ_EMP_BADGE", "NORMAL", TRUE, FALSE,
                      <<[col |-> "BADGE", ordinal |-> 1]>>)>>]

CatView(owner, def) ==
    [owner |-> owner, name |-> "EMP_V", comment |-> "employee view",
     definition |-> def, updatable |-> FALSE,
     cols |-> <<CatColumn("ID", 1, "NUMBER", FALSE, <<>>, 0, FALSE),
                CatColumn("MGR_ID", 2, "NUMBER", FALSE, <<>>, 0, FALSE)>>]

CatArg(name, pos, argMode, dataType) ==
    [name |-> name, position |-> pos, mode |-> argMode, dataType |-> dataType]

ArgNames == <<"EMP_ID", "PCT">>
ArgModes == <<"IN", "OUT">>

\* the n arguments of a generated routine, stored in reverse ordinal order
GenArgs(n) ==
    [i \in 1..n |->
        LET p == n + 1 - i
        IN  CatArg(ArgNames[((p - 1) % Len(ArgNames)) + 1], p,
                   ArgModes[((p - 1) % Len(ArgModes)) + 1], "NUMBER")]

CatRoutine(owner, name, type, args, returnType, body) ==
    [owner |-> owner, name |-> name, type |-> type, args |-> args,
     returnType |-> returnType, body |-> body, comment |-> ""]

\* the procedure of the signature scenario
RaiseSalary(owner, body) ==
    CatRoutine(owner, "RAISE_SALARY", "PROCEDURE",
               <<CatArg("PCT", 2, "IN", "NUMBER"), CatArg("EMP_ID", 1, "IN", "NUMBER")>>,
               "", body)

\* one function per argument count 0..MaxArgs, owned by HR
GenFunctions(body) ==
    [k \in 1..(MaxArgs + 1) |->
        CatRoutine("HR", "CALC_" \o ToString(k - 1), "FUNCTION", GenArgs(k - 1),
                   "NUMBER", body)]

CatSequence(owner) ==
    [owner |-> owner, name |-> "EMP_SEQ", minValue |-> 1, maxValue |-> 9999,
     increment |-> 1, lastNumber |-> 42, cacheSize |-> 20, cycle |-> FALSE,
     order |-> FALSE]

CatTrigger(owner, tableOwner, name, timing, eachRow, body) ==
    [owner |-> owner, tableOwner |-> tableOwner, name |-> name, table |-> "EMP",
     timing |-> timing, eachRow |-> eachRow, event |-> "INSERT",
     enabled |-> TRUE, body |-> body]

CatSynonym(owner, name, targetOwner, targetObject) ==
    [owner |-> owner, name |-> name, targetOwner |-> targetOwner,
     targetObject |-> targetObject]

\* CREATE UNIQUE INDEX UQ_EMP_BADGE ON EMP (BADGE) INCLUDE (MGR_ID): a covering
\* index, which SQL Server and PostgreSQL have and Oracle and MySQL do not
WithIncludedColumn(tab) ==
    [tab EXCEPT !.indexes =
        [i \in 1..Len(tab.indexes) |->
            IF tab.indexes[i].name = "UQ_EMP_BADGE"
            THEN [tab.indexes[i] EXCEPT !.included = <<"MGR_ID">>]
            ELSE tab.indexes[i]]]

\* Only Oracle has triggers owned by another schema than their table's, and
\* PUBLIC synonyms; MySQL and PostgreSQL have no synonyms, MySQL no sequences,
\* SQL Server no BEFORE triggers.
CatalogOf(dialect, kind, viewDef, body) ==
    [dbName |-> "APPDB", version |-> "1.0",
     tables    |-> [i \in 1..Len(CatalogOwners) |->
                       IF dialect \in {"mssql", "postgres"}
                       THEN WithIncludedColumn(CatTable(CatalogOwners[i], kind))
                       ELSE CatTable(CatalogOwners[i], kind)],
     views     |-> [i \in 1..Len(CatalogOwners) |-> CatView(CatalogOwners[i], viewDef)],
     routines  |-> GenFunctions(body)
                   \o [i \in 1..Len(CatalogOwners) |-> RaiseSalary(CatalogOwners[i], body)],
     sequences |-> IF dialect = "mysql" THEN <<>>
                   ELSE [i \in 1..Len(CatalogOwners) |-> CatSequence(CatalogOwners[i])],
     triggers  |-> [i \in 1..Len(CatalogOwners) |->
                       CatTrigger(CatalogOwners[i], CatalogOwners[i], "EMP_BI",
                                  IF dialect = "mssql" THEN "AFTER" ELSE "BEFORE",
                                  TRUE, body)]
                   \o (IF dialect = "oracle"
                       THEN <<CatTrigger("SYS", "HR", "EMP_AUDIT", "AFTER", FALSE, body),
                              CatTrigger("HR", "SYS", "EMP_WATCH", "INSTEAD OF", TRUE, body)>>
                       ELSE <<>>),
     synonyms  |-> CASE dialect = "oracle" ->
                          [i \in 1..Len(CatalogOwners) |->
                              CatSynonym(CatalogOwners[i], "EMPLOYEES", "HR", "EMP")]
                          \o <<CatSynonym("PUBLIC", "EMP", "HR", "EMP")>>
                     [] dialect = "mssql" ->
                          [i \in 1..Len(CatalogOwners) |->
                              CatSynonym(CatalogOwners[i], "EMPLOYEES", "HR", "EMP")]
                     [] OTHER -> <<>>]

\* the same catalog with every definition/body text replaced
WithBodyTexts(cat, viewDef, body) ==
    [cat EXCEPT
        !.views    = [i \in 1..Len(cat.views) |-> [cat.views[i] EXCEPT !.definition = viewDef]],
        !.routines = [i \in 1..Len(cat.routines) |-> [cat.routines[i] EXCEPT !.body = body]],
        !.triggers = [i \in 1..Len(cat.triggers) |-> [cat.triggers[i] EXCEPT !.body = body]]]

(***************************************************************************)
(* The database connection as the adapters see it.  An Extractor e is      *)
(* [adapter, schemaFilter, cat, failQ, cancelled, order] plus the place of   *)
(* the call in flight: cancelAt is Nil, or points at the query during which *)
(* the caller's ctx is cancelled; at is the ordinal of the table row the    *)
(* GetTables loop is on (0 outside the loop); probe asks only whether the   *)
(* call gets as far as cancelAt.                                            *)
(***************************************************************************)
Extractor(a, filter, cat, fq, cn, ord) ==
    [adapter |-> a, schemaFilter |-> filter, cat |-> cat, failQ |-> fq,
     cancelled |-> cn, order |-> ord, cancelAt |-> Nil, at |-> 0, probe |-> FALSE]

\* the position of a query inside one iteration of the GetTables loop:
\* columns, (Oracle) constraints, FK target, indexes, index columns
QueryRank(kind) ==
    CASE kind = "tables"      -> 0
      [] kind = "columns"     -> 1
      [] kind = "constraints" -> 2
      [] kind = "fktarget"    -> 3
      [] kind = "indexes"     -> 4
      [] kind = "indexcols"   -> 5
      [] OTHER                -> 0

\* rank of the moment after the last nested query of an iteration, before rows.Next()
AfterRow == 6

\* the extractor while the GetTables loop is on its i-th row
AtTable(e, i) == [e EXCEPT !.at = i]

\* ctx is already cancelled when the query of this kind is issued
CtxDone(e, kind) ==
    /\ e.cancelAt # Nil
    /\ \/ e.at > e.cancelAt[1].table
       \/ /\ e.at = e.cancelAt[1].table
          /\ QueryRank(kind) >= e.cancelAt[1].rank

\* kinds of catalog query an adapter issues
QueryKinds == {"dbinfo", "tables", "columns", "constraints", "fktarget",
               "indexes", "indexcols", "views", "routines", "args",
               "sequences", "triggers", "synonyms"}

\* db.Query in place of db.QueryContext: the driver never looks at ctx
QueryErrNoContext(e, kind) ==
    IF e.failQ = kind THEN <<"query failed">> ELSE NoErr

\* db.QueryContext / QueryRowContext: the error the driver returns for a query
QueryErr(e, kind) ==
    IF e.cancelled THEN <<"context canceled">>
    ELSE IF CtxDone(e, kind) THEN (IF e.probe THEN NoErr ELSE <<"context canceled">>)
    ELSE IF e.failQ = kind THEN <<"query failed">>
    ELSE NoErr

ErrNoRows == <<"sql: no rows in result set">>

\* row order of a query that has no ORDER BY
Natural(e, rows) == IF e.order = "fwd" THEN rows ELSE Reverse(rows)

\* the "AND owner IN (...)" fragment every Get* appends when the filter is non-empty
OwnerIn(e, owner) ==
    IF Len(e.schemaFilter) > 0 THEN owner \in Range(e.schemaFilter) ELSE TRUE

\* strings.Contains
Contains(s, sub) ==
    \E i \in 1..(Len(s) - Len(sub) + 1) : SubSeq(s, i, i + Len(sub) - 1) = sub

\* strings.Fields(s)[0], or "" when s has no field (s holds single spaces only)
RECURSIVE FirstField(_)
FirstField(s) ==
    IF Len(s) = 0 THEN ""
    ELSE IF SubSeq(s, 1, 1) = " " THEN FirstField(SubSeq(s, 2, Len(s)))
    ELSE IF \E i \in 1..Len(s) : SubSeq(s, i, i) = " "
         THEN SubSeq(s, 1, (CHOOSE i \in 1..Len(s) :
                               /\ SubSeq(s, i, i) = " "
                               /\ \A j \in 1..(i - 1) : SubSeq(s, j, j) # " ") - 1)
         ELSE s

\* ORDER BY <key> ASC over rows [k, v]: a stable sort on k
InsertByKey(x, sorted) ==
    IF \E i \in 1..Len(sorted) : sorted[i].k > x.k
    THEN LET i == CHOOSE i \in 1..Len(sorted) :
                     /\ sorted[i].k > x.k
                     /\ \A j \in 1..(i - 1) : sorted[j].k <= x.k
         IN  SubSeq(sorted, 1, i - 1) \o <<x>> \o SubSeq(sorted, i, Len(sorted))
    ELSE Append(sorted, x)

RECURSIVE OrderByKey(_)
OrderByKey(rows) ==
    IF rows = <<>> THEN <<>>
    ELSE InsertByKey(rows[Len(rows)], OrderByKey(SubSeq(rows, 1, Len(rows) - 1)))

\* the catalog's column rows of the table or view owner.name
RelationColumns(cat, owner, name) ==
    Concat([i \in 1..Len(cat.tables) |->
               IF cat.tables[i].owner = owner /\ cat.tables[i].name = name
               THEN cat.tables[i].cols ELSE <<>>])
    \o Concat([i \in 1..Len(cat.views) |->
               IF cat.views[i].owner = owner /\ cat.views[i].name = name
               THEN cat.views[i].cols ELSE <<>>])

\* the catalog's index rows of table owner.name, in index-name order
TableIndexes(cat, owner, name) ==
    Concat([i \in 1..Len(cat.tables) |->
               IF cat.tables[i].owner = owner /\ cat.tables[i].name = name
               THEN cat.tables[i].indexes ELSE <<>>])

\* a model.Column with every field at its zero value
Column(name, pos, dataType) ==
    [Name |-> name, Position |-> pos, DataType |-> dataType,
     IsPrimaryKey |-> FALSE, IsForeignKey |-> FALSE, IsUnique |-> FALSE,
     FKTargetTable |-> "", FKTargetColumn |-> ""]

\* a model.Index
Index(name, table, owner, type, columns, isUnique, isPrimary) ==
    [Name |-> name, TableName |-> table, Owner |-> owner, Type |-> type,
     Columns |-> columns, IsUnique |-> isUnique, IsPrimary |-> isPrimary,
     IsEnabled |-> TRUE]

\* shared shape of getIndexColumns: SELECT column ... ORDER BY <key ordinal>
IndexColumnsOrdered(idx) ==
    LET rows == [i \in 1..Len(idx.keys) |->
                    [k |-> idx.keys[i].ordinal, v |-> idx.keys[i].col]]
        sorted == OrderByKey(rows)
    IN  [i \in 1..Len(sorted) |-> sorted[i].v]

\* the loop every getColumnsForTable / getIndexesForTable / Get* runs over its
\* rows: stop at the first row whose nested query failed
FirstErr(results) ==
    IF \E i \in 1..Len(results) : results[i].err # NoErr
    THEN results[CHOOSE i \in 1..Len(results) :
                    /\ results[i].err # NoErr
                    /\ \A j \in 1..(i - 1) : results[j].err = NoErr].err
    ELSE NoErr

Vals(results) == [i \in 1..Len(results) |-> results[i].val]

\* what every Get* loop returns: nil and the first nested error, or the slice
LoopResult(results) ==
    IF FirstErr(results) # NoErr THEN Fail(FirstErr(results))
    ELSE Ok(Slice(Vals(results)))

\* `return tables, rows.Err()` of GetTables.  When ctx is cancelled after the
\* last nested query of row n, rows.Next() either still delivers what the
\* driver has buffered (the loop goes on, rows.Err() is nil at the end) or
\* stops the loop there and rows.Err() is the cancellation.
TablesResult(e, results) ==
    IF /\ e.cancelAt # Nil
       /\ ~e.probe
       /\ ~e.cancelled
       /\ e.cancelAt[1].rank = AfterRow
       /\ e.cancelAt[1].rowsErr
       /\ e.cancelAt[1].table <= Len(results)
       /\ FirstErr(SubSeq(results, 1, e.cancelAt[1].table)) = NoErr
    THEN [val |-> Slice(Vals(SubSeq(results, 1, e.cancelAt[1].table))),
          err |-> <<"context canceled">>]
    ELSE LoopResult(results)

\* model.Table, model.View, model.Routine, ... as the adapters fill them
Table(owner, name, type, comment, rowCount, columns, indexes) ==
    [Name |-> name, Owner |-> owner, Type |-> type, Comment |-> comment,
     RowCount |-> rowCount, Columns |-> columns, Indexes |-> indexes]

View(owner, name, type, comment, isUpdatable, columns) ==
    [Name |-> name, Owner |-> owner, Type |-> type, Comment |-> comment,
     IsUpdatable |-> isUpdatable, Columns |-> columns]

Routine(owner, name, type, comment, signature, arguments, returnType, language) ==
    [Name |-> name, Owner |-> owner, Type |-> type, Comment |-> comment,
     Signature |-> signature, Arguments |-> arguments,
     ReturnType |-> returnType, Language |-> language]

RoutineArgument(a) ==
    [Name |-> a.name, Position |-> a.position, Mode |-> a.mode,
     DataType |-> a.dataType]

Sequence(owner, s, cacheSize, isOrdered) ==
    [Name |-> s.name, Owner |-> owner, MinValue |-> s.minValue,
     MaxValue |-> s.maxValue, Increment |-> s.increment,
     LastNumber |-> s.lastNumber, CacheSize |-> cacheSize,
     IsCyclic |-> s.cycle, IsOrdered |-> isOrdered]

Trigger(owner, name, targetTable, timing, event, level, status) ==
    [Name |-> name, Owner |-> owner, TargetTable |-> targetTable,
     TargetType |-> "TABLE", Timing |-> timing, Event |-> event,
     Level |-> level, Status |-> status, Comment |-> ""]

Synonym(owner, name, targetObject, targetOwner, isPublic) ==
    [Name |-> name, Owner |-> owner, TargetObject |-> targetObject,
     TargetOwner |-> targetOwner, TargetType |-> "TABLE", IsPublic |-> isPublic]

\* rows of a filtered object query: the objects whose owner passes the filter
FilterRows(e, rows) == SelectSeq(rows, LAMBDA r : OwnerIn(e, r.owner))

\* ORDER BY <ordinal position> over argument rows
ArgsOrdered(args) ==
    LET sorted == OrderByKey([i \in 1..Len(args) |-> [k |-> args[i].position, v |-> args[i]]])
    IN  [i \in 1..Len(sorted) |-> RoutineArgument(sorted[i].v)]

\* ORDER BY <column position> over column rows
ColumnsOrdered(cols) ==
    LET sorted == OrderByKey([i \in 1..Len(cols) |-> [k |-> cols[i].position, v |-> cols[i]]])
    IN  [i \in 1..Len(sorted) |-> sorted[i].v]

\* the validity test dropped for the column: a NULL ref_column scans as ""
ScannedTargetTableOnly(row) ==
    IF row.table # NULL
    THEN Ptr([row EXCEPT !.column = IF row.column = NULL THEN "" ELSE row.column])
    ELSE Nil

\* getForeignKeyTarget after the Scan: the map when refTable.Valid &&
\* refColumn.Valid, else nil
ScannedTarget(row) ==
    IF row.table # NULL /\ row.column # NULL THEN Ptr(row) ELSE Nil

(***************************************************************************)
(* PostgreSQL adapter (internal/extractor/postgres/extractor.go).          *)
(***************************************************************************)
PostgresNewExtractor(cfgFilter) ==
    IF Len(cfgFilter) = 0 THEN <<"public">> ELSE cfgFilter

PostgresGetDatabaseInfo(e) ==
    IF QueryErr(e, "dbinfo") # NoErr
    THEN [name |-> "", version |-> "", err |-> QueryErr(e, "dbinfo")]
    ELSE [name |-> e.cat.dbName, version |-> e.cat.version, err |-> NoErr]

\* rows of the FK-target query: every constraint on the column joined with
\* every referenced column of that constraint (a.attnum = ANY(conkey),
\* pa.attnum = ANY(confkey)); LIMIT 1 keeps the first in natural order
PostgresGetForeignKeyTarget(e, c) ==
    LET rows == Concat([i \in 1..Len(c.fks) |->
                   [j \in 1..Len(c.fks[i].refCols) |->
                       [table  |-> c.fks[i].refOwner \o "." \o c.fks[i].refTable,
                        column |-> c.fks[i].refCols[j]]]])
    IN  IF QueryErr(e, "fktarget") # NoErr THEN [val |-> Nil, err |-> QueryErr(e, "fktarget")]
        ELSE IF rows = <<>> THEN [val |-> Nil, err |-> ErrNoRows]
        ELSE [val |-> ScannedTarget(Natural(e, rows)[1]), err |-> NoErr]

PostgresColumn(e, c) ==
    LET col == [Column(c.name, c.position, c.dataType) EXCEPT
                    !.IsPrimaryKey = c.pk,
                    !.IsForeignKey = (c.fks # <<>>),
                    !.IsUnique = (c.uniq > 0)]
        fk == PostgresGetForeignKeyTarget(e, c)
    IN  IF col.IsForeignKey /\ fk.err = NoErr /\ fk.val # Nil
        THEN [col EXCEPT !.FKTargetTable = fk.val[1].table,
                         !.FKTargetColumn = fk.val[1].column]
        ELSE col

PostgresGetColumnsForTable(e, owner, tableName) ==
    IF QueryErr(e, "columns") # NoErr THEN FailSeq(QueryErr(e, "columns"))
    ELSE LET rows == ColumnsOrdered(RelationColumns(e.cat, owner, tableName))
         IN  Ok([i \in 1..Len(rows) |-> PostgresColumn(e, rows[i])])

\* pg_index.indkey holds the key columns and after them the INCLUDE columns;
\* the query takes every attribute in it, ORDER BY array_position(indkey, attnum)
PostgresGetIndexColumns(e, idx) ==
    IF QueryErr(e, "indexcols") # NoErr THEN FailSeq(QueryErr(e, "indexcols"))
    ELSE Ok(IndexColumnsOrdered(idx) \o idx.included)

\* pg_class rows named relname, in any schema: the query joins pg_class on
\* c.relname = i.tablename alone, so each index row repeats once per such row
PgClassCount(cat, relname) ==
    Cardinality({i \in 1..Len(cat.tables) : cat.tables[i].name = relname})
    + Cardinality({i \in 1..Len(cat.views) : cat.views[i].name = relname})

PostgresGetIndexesForTable(e, owner, tableName) ==
    IF QueryErr(e, "indexes") # NoErr THEN FailSeq(QueryErr(e, "indexes"))
    ELSE LET idxs == TableIndexes(e.cat, owner, tableName)
             n    == PgClassCount(e.cat, tableName)
             rows == Concat([i \in 1..Len(idxs) |-> [j \in 1..n |-> idxs[i]]])
             results == [i \in 1..Len(rows) |->
                 LET Row(cols) ==
                         [val |-> Index(rows[i].name, tableName, owner, rows[i].type,
                                        cols.val, rows[i].unique, rows[i].primary),
                          err |-> cols.err]
                 IN  Row(PostgresGetIndexColumns(e, rows[i]))]
         IN  IF FirstErr(results) # NoErr THEN FailSeq(FirstErr(results))
             ELSE Ok(Vals(results))

PostgresGetTables(e) ==
    IF QueryErr(e, "tables") # NoErr
    THEN Fail(Wrap("failed to query tables", QueryErr(e, "tables")))
    ELSE LET rows == FilterRows(e, e.cat.tables)
             results == [i \in 1..Len(rows) |->
                 LET Row(cols, idxs) ==
                         [val |-> Table(rows[i].owner, rows[i].name, "TABLE", rows[i].comment,
                                        rows[i].rowCount, cols.val, idxs.val),
                          err |-> IF cols.err # NoErr THEN cols.err ELSE idxs.err]
                 IN  Row(PostgresGetColumnsForTable(AtTable(e, i), rows[i].owner, rows[i].name),
                         PostgresGetIndexesForTable(AtTable(e, i), rows[i].owner, rows[i].name))]
         IN  TablesResult(e, results)

PostgresGetViews(e) ==
    IF QueryErr(e, "views") # NoErr THEN Fail(QueryErr(e, "views"))
    ELSE LET rows == Natural(e, FilterRows(e, e.cat.views))
             results == [i \in 1..Len(rows) |->
                 LET Row(cols) ==
                         [val |-> View(rows[i].owner, rows[i].name, "VIEW", rows[i].comment,
                                       rows[i].updatable, cols.val),
                          err |-> cols.err]
                 IN  Row(PostgresGetColumnsForTable(e, rows[i].owner, rows[i].name))]
         IN  LoopResult(results)

\* pg_get_function_identity_arguments: "name type", the mode shown unless IN
PgIdentityArguments(args) ==
    LET sorted == ArgsOrdered(args)
    IN  JoinStr([i \in 1..Len(sorted) |->
                    IF sorted[i].Mode = "IN"
                    THEN sorted[i].Name \o " " \o sorted[i].DataType
                    ELSE sorted[i].Mode \o " " \o sorted[i].Name \o " " \o sorted[i].DataType],
                ", ")

PostgresRoutine(r) ==
    LET type == IF r.type = "PROCEDURE" THEN "PROCEDURE" ELSE "FUNCTION"
        sig  == type \o " " \o r.name \o "(" \o PgIdentityArguments(r.args) \o ")"
    IN  Routine(r.owner, r.name, type, r.comment,
                IF type = "FUNCTION" THEN sig \o " RETURNS " \o r.returnType ELSE sig,
                <<>>,
                IF type = "FUNCTION" THEN r.returnType ELSE "",
                "plpgsql")

PostgresGetRoutines(e) ==
    IF QueryErr(e, "routines") # NoErr THEN Fail(QueryErr(e, "routines"))
    ELSE LET rows == Natural(e, FilterRows(e, e.cat.routines))
         IN  Ok(Slice([i \in 1..Len(rows) |-> PostgresRoutine(rows[i])]))

PostgresGetSequences(e) ==
    IF QueryErr(e, "sequences") # NoErr THEN Fail(QueryErr(e, "sequences"))
    ELSE LET rows == Natural(e, FilterRows(e, e.cat.sequences))
         IN  Ok(Slice([i \in 1..Len(rows) |-> Sequence(rows[i].owner, rows[i], 0, FALSE)]))

\* a trigger's schema is its table's (pg_trigger has none of its own)
PostgresGetTriggers(e) ==
    IF QueryErr(e, "triggers") # NoErr THEN Fail(QueryErr(e, "triggers"))
    ELSE LET rows == Natural(e, SelectSeq(e.cat.triggers,
                                          LAMBDA t : OwnerIn(e, t.tableOwner)))
         IN  Ok(Slice([i \in 1..Len(rows) |->
                 Trigger(rows[i].tableOwner, rows[i].name, rows[i].table,
                         CASE rows[i].timing = "BEFORE" -> "BEFORE"
                           [] rows[i].timing = "INSTEAD OF" -> "INSTEAD OF"
                           [] OTHER -> "AFTER",
                         rows[i].event,
                         IF rows[i].eachRow THEN "ROW" ELSE "STATEMENT",
                         IF rows[i].enabled THEN "ENABLED" ELSE "DISABLED")]))

PostgresGetSynonyms(e) == Ok(EmptySlice)

(***************************************************************************)
(* MySQL adapter (mysql.Extractor).                                        *)
(***************************************************************************)
MySQLNewExtractor(cfgFilter) ==
    IF Len(cfgFilter) = 0 THEN <<CfgDatabase>> ELSE cfgFilter

MySQLGetDatabaseInfo(e) ==
    IF QueryErr(e, "dbinfo") # NoErr
    THEN [name |-> "", version |-> "", err |-> QueryErr(e, "dbinfo")]
    ELSE [name |-> e.cat.dbName, version |-> e.cat.version, err |-> NoErr]

\* INFORMATION_SCHEMA.COLUMNS.COLUMN_KEY: PRI, else UNI, else MUL when the
\* column leads a non-unique index (every foreign key has such an index)
ColumnKey(c) ==
    IF c.pk THEN "PRI"
    ELSE IF c.uniq > 0 THEN "UNI"
    ELSE IF c.mul \/ c.fks # <<>> THEN "MUL"
    ELSE ""

\* KEY_COLUMN_USAGE rows of the column with a referenced table, LIMIT 1
MySQLGetForeignKeyTarget(e, c) ==
    LET rows == [i \in 1..Len(c.fks) |->
                    [table  |-> c.fks[i].refTable,
                     column |-> c.fks[i].refCols[c.fks[i].pos]]]
    IN  IF QueryErr(e, "fktarget") # NoErr THEN [val |-> Nil, err |-> QueryErr(e, "fktarget")]
        ELSE IF rows = <<>> THEN [val |-> Nil, err |-> ErrNoRows]
        ELSE [val |-> ScannedTarget(Natural(e, rows)[1]), err |-> NoErr]

MySQLColumn(e, c) ==
    LET columnKey == ColumnKey(c)
        col == [Column(c.name, c.position, c.dataType) EXCEPT
                    !.IsPrimaryKey = (columnKey = "PRI"),
                    !.IsForeignKey = (columnKey = "MUL" \/ columnKey = "FOR"),
                    !.IsUnique = (columnKey = "UNI")]
        fk == MySQLGetForeignKeyTarget(e, c)
    IN  IF col.IsForeignKey /\ fk.err = NoErr /\ fk.val # Nil
        THEN [col EXCEPT !.FKTargetTable = fk.val[1].table,
                         !.FKTargetColumn = fk.val[1].column]
        ELSE col

MySQLGetColumnsForTable(e, owner, tableName) ==
    IF QueryErr(e, "columns") # NoErr THEN FailSeq(QueryErr(e, "columns"))
    ELSE LET rows == ColumnsOrdered(RelationColumns(e.cat, owner, tableName))
         IN  Ok([i \in 1..Len(rows) |-> MySQLColumn(e, rows[i])])

MySQLGetIndexColumns(e, idx) ==
    IF QueryErr(e, "indexcols") # NoErr THEN FailSeq(QueryErr(e, "indexcols"))
    ELSE Ok(IndexColumnsOrdered(idx))

\* STATISTICS names the primary key's index PRIMARY
MySQLGetIndexesForTable(e, owner, tableName) ==
    IF QueryErr(e, "indexes") # NoErr THEN FailSeq(QueryErr(e, "indexes"))
    ELSE LET rows == TableIndexes(e.cat, owner, tableName)
             results == [i \in 1..Len(rows) |->
                 LET Row(cols, name) ==
                         [val |-> Index(name, tableName, owner, rows[i].type, cols.val,
                                        rows[i].unique, name = "PRIMARY"),
                          err |-> cols.err]
                 IN  Row(MySQLGetIndexColumns(e, rows[i]),
                         IF rows[i].primary THEN "PRIMARY" ELSE rows[i].name)]
         IN  IF FirstErr(results) # NoErr THEN FailSeq(FirstErr(results))
             ELSE Ok(Vals(results))

MySQLGetTables(e) ==
    IF QueryErr(e, "tables") # NoErr
    THEN Fail(Wrap("failed to query tables", QueryErr(e, "tables")))
    ELSE LET rows == FilterRows(e, e.cat.tables)
             results == [i \in 1..Len(rows) |->
                 LET Row(cols, idxs) ==
                         [val |-> Table(rows[i].owner, rows[i].name, "InnoDB", rows[i].comment,
                                        rows[i].rowCount, cols.val, idxs.val),
                          err |-> IF cols.err # NoErr THEN cols.err ELSE idxs.err]
                 IN  Row(MySQLGetColumnsForTable(AtTable(e, i), rows[i].owner, rows[i].name),
                         MySQLGetIndexesForTable(AtTable(e, i), rows[i].owner, rows[i].name))]
         IN  TablesResult(e, results)

MySQLGetViews(e) ==
    IF QueryErr(e, "views") # NoErr THEN Fail(QueryErr(e, "views"))
    ELSE LET rows == Natural(e, FilterRows(e, e.cat.views))
             results == [i \in 1..Len(rows) |->
                 LET Row(cols) ==
                         [val |-> View(rows[i].owner, rows[i].name, "VIEW", rows[i].comment,
                                       rows[i].updatable, cols.val),
                          err |-> cols.err]
                 IN  Row(MySQLGetColumnsForTable(e, rows[i].owner, rows[i].name))]
         IN  LoopResult(results)

MySQLGetRoutineParameters(e, r) ==
    IF QueryErr(e, "args") # NoErr THEN FailSeq(QueryErr(e, "args"))
    ELSE Ok(ArgsOrdered(r.args))

\* MySQLBuildSignature with the mode written after the name
MySQLBuildSignatureNameFirst(name, args, routineType) ==
    routineType \o " " \o name \o "("
    \o JoinStr([i \in 1..Len(args) |->
                   args[i].Name \o " " \o args[i].Mode \o " " \o args[i].DataType], ", ")
    \o ")"

MySQLBuildSignature(name, args, routineType) ==
    routineType \o " " \o name \o "("
    \o JoinStr([i \in 1..Len(args) |->
                   args[i].Mode \o " " \o args[i].Name \o " " \o args[i].DataType], ", ")
    \o ")"

MySQLGetRoutines(e) ==
    IF QueryErr(e, "routines") # NoErr THEN Fail(QueryErr(e, "routines"))
    ELSE LET rows == Natural(e, FilterRows(e, e.cat.routines))
             results == [i \in 1..Len(rows) |->
                 LET Row(args) ==
                         [val |-> Routine(rows[i].owner, rows[i].name, rows[i].type,
                                          rows[i].comment,
                                          MySQLBuildSignature(rows[i].name, args.val, rows[i].type),
                                          args.val,
                                          IF rows[i].type = "FUNCTION" THEN rows[i].returnType ELSE "",
                                          "SQL"),
                          err |-> args.err]
                 IN  Row(MySQLGetRoutineParameters(e, rows[i]))]
         IN  LoopResult(results)

\* MySQLGetSequences returning the zero-value (nil) slice
MySQLGetSequencesNil(e) == Ok(NilSlice)

MySQLGetSequences(e) == Ok(EmptySlice)

MySQLGetTriggers(e) ==
    IF QueryErr(e, "triggers") # NoErr THEN Fail(QueryErr(e, "triggers"))
    ELSE LET rows == Natural(e, FilterRows(e, e.cat.triggers))
         IN  Ok(Slice([i \in 1..Len(rows) |->
                 Trigger(rows[i].owner, rows[i].name, rows[i].table, rows[i].timing,
                         rows[i].event, "ROW", "ENABLED")]))

MySQLGetSynonyms(e) == Ok(EmptySlice)

(***************************************************************************)
(* Oracle adapter (oracle.Extractor).                                      *)
(***************************************************************************)
OracleNewExtractor(cfgFilter) == cfgFilter

OracleGetDatabaseInfo(e) ==
    IF QueryErr(e, "dbinfo") # NoErr
    THEN [name |-> "", version |-> "", err |-> QueryErr(e, "dbinfo")]
    ELSE [name |-> e.cat.dbName, version |-> e.cat.version, err |-> NoErr]

\* rows of the constraint query for one column: ALL_CONSTRAINTS joined with
\* ALL_CONS_COLUMNS, left-joined with the referenced constraint and each of
\* its columns (NULL when the referenced constraint is not visible)
OracleConstraintRowsOf(c) ==
    (IF c.pk THEN <<[col |-> c.name, type |-> "P", rTable |-> NULL, rColumn |-> NULL]>>
     ELSE <<>>)
    \o Concat([i \in 1..Len(c.fks) |->
          IF c.fks[i].visible
          THEN [j \in 1..Len(c.fks[i].refCols) |->
                   [col |-> c.name, type |-> "R", rTable |-> c.fks[i].refTable,
                    rColumn |-> c.fks[i].refCols[j]]]
          ELSE <<[col |-> c.name, type |-> "R", rTable |-> NULL, rColumn |-> NULL]>>])
    \o (IF c.uniq > 0
        THEN <<[col |-> c.name, type |-> "U", rTable |-> NULL, rColumn |-> NULL]>>
        ELSE <<>>)

OracleConstraintRows(cat, owner, tableName) ==
    LET cols == RelationColumns(cat, owner, tableName)
    IN  Concat([i \in 1..Len(cols) |-> OracleConstraintRowsOf(cols[i])])

\* an entry of constraintMap with no key set
NoConstraints == [PK |-> FALSE, FK |-> FALSE, UK |-> FALSE,
                  FK_TABLE |-> NULL, FK_COLUMN |-> NULL]

\* the rows.Next() loop filling constraintMap: later rows overwrite earlier ones
RECURSIVE OracleConstraintMap(_)
OracleConstraintMap(rows) ==
    IF rows = <<>> THEN [n \in {} |-> NoConstraints]
    ELSE LET before == OracleConstraintMap(SubSeq(rows, 1, Len(rows) - 1))
             r      == rows[Len(rows)]
             old    == IF r.col \in DOMAIN before THEN before[r.col] ELSE NoConstraints
             new    == CASE r.type = "P" -> [old EXCEPT !.PK = TRUE]
                         [] r.type = "R" ->
                              IF r.rTable # NULL /\ r.rColumn # NULL
                              THEN [old EXCEPT !.FK = TRUE, !.FK_TABLE = r.rTable,
                                               !.FK_COLUMN = r.rColumn]
                              ELSE [old EXCEPT !.FK = TRUE]
                         [] r.type = "U" -> [old EXCEPT !.UK = TRUE]
                         [] OTHER -> old
         IN  [n \in DOMAIN before \cup {r.col} |-> IF n = r.col THEN new ELSE before[n]]

OracleEnrichColumnsWithConstraints(e, owner, tableName, columns) ==
    IF QueryErr(e, "constraints") # NoErr
    THEN [val |-> columns, err |-> QueryErr(e, "constraints")]
    ELSE LET constraintMap ==
                 OracleConstraintMap(Natural(e, OracleConstraintRows(e.cat, owner, tableName)))
         IN  [val |-> [i \in 1..Len(columns) |->
                 IF columns[i].Name \in DOMAIN constraintMap
                 THEN LET Enriched(cs) ==
                              [columns[i] EXCEPT
                                  !.IsPrimaryKey = cs.PK,
                                  !.IsForeignKey = cs.FK,
                                  !.FKTargetTable = IF cs.FK /\ cs.FK_TABLE # NULL
                                                    THEN cs.FK_TABLE ELSE "",
                                  !.FKTargetColumn = IF cs.FK /\ cs.FK_COLUMN # NULL
                                                     THEN cs.FK_COLUMN ELSE "",
                                  !.IsUnique = cs.UK]
                      IN  Enriched(constraintMap[columns[i].Name])
                 ELSE columns[i]],
              err |-> NoErr]

OracleGetColumnsForTable(e, owner, tableName) ==
    IF QueryErr(e, "columns") # NoErr THEN FailSeq(QueryErr(e, "columns"))
    ELSE LET rows == ColumnsOrdered(RelationColumns(e.cat, owner, tableName))
             columns == [i \in 1..Len(rows) |->
                            Column(rows[i].name, rows[i].position, rows[i].dataType)]
             Result(enriched) ==
                 IF enriched.err # NoErr THEN FailSeq(enriched.err) ELSE Ok(enriched.val)
         IN  Result(OracleEnrichColumnsWithConstraints(e, owner, tableName, columns))

OracleGetIndexColumns(e, idx) ==
    IF QueryErr(e, "indexcols") # NoErr THEN FailSeq(QueryErr(e, "indexcols"))
    ELSE Ok(IndexColumnsOrdered(idx))

OracleGetIndexesForTable(e, owner, tableName) ==
    IF QueryErr(e, "indexes") # NoErr THEN FailSeq(QueryErr(e, "indexes"))
    ELSE LET rows == TableIndexes(e.cat, owner, tableName)
             results == [i \in 1..Len(rows) |->
                 LET Row(cols) ==
                         [val |-> Index(rows[i].name, tableName, owner, rows[i].type, cols.val,
                                        rows[i].unique, FALSE),
                          err |-> cols.err]
                 IN  Row(OracleGetIndexColumns(e, rows[i]))]
         IN  IF FirstErr(results) # NoErr THEN FailSeq(FirstErr(results))
             ELSE Ok(Vals(results))

\* t.Type receives TABLESPACE_NAME, the third selected column
OracleGetTables(e) ==
    IF QueryErr(e, "tables") # NoErr
    THEN Fail(Wrap("failed to query tables", QueryErr(e, "tables")))
    ELSE LET rows == FilterRows(e, e.cat.tables)
             results == [i \in 1..Len(rows) |->
                 LET Row(cols, idxs) ==
                         [val |-> Table(rows[i].owner, rows[i].name, "USERS", rows[i].comment,
                                        rows[i].rowCount, cols.val, idxs.val),
                          err |-> IF cols.err # NoErr
                                  THEN Wrap("failed to get columns for", cols.err)
                                  ELSE IF idxs.err # NoErr
                                  THEN Wrap("failed to get indexes for", idxs.err)
                                  ELSE NoErr]
                 IN  Row(OracleGetColumnsForTable(AtTable(e, i), rows[i].owner, rows[i].name),
                         OracleGetIndexesForTable(AtTable(e, i), rows[i].owner, rows[i].name))]
         IN  TablesResult(e, results)

OracleGetViews(e) ==
    IF QueryErr(e, "views") # NoErr THEN Fail(QueryErr(e, "views"))
    ELSE LET rows == Natural(e, FilterRows(e, e.cat.views))
             results == [i \in 1..Len(rows) |->
                 LET Row(cols) ==
                         [val |-> View(rows[i].owner, rows[i].name, "VIEW", rows[i].comment,
                                       rows[i].updatable, cols.val),
                          err |-> cols.err]
                 IN  Row(OracleGetColumnsForTable(e, rows[i].owner, rows[i].name))]
         IN  LoopResult(results)

OracleGetRoutineArguments(e, r) ==
    IF QueryErr(e, "args") # NoErr THEN FailSeq(QueryErr(e, "args"))
    ELSE Ok(ArgsOrdered(r.args))

OracleBuildSignature(name, args, routineType) ==
    LET argStrs == [i \in 1..Len(args) |->
                       args[i].Name \o " " \o args[i].Mode \o " " \o args[i].DataType]
    IN  IF routineType = "FUNCTION"
        THEN "FUNCTION " \o name \o "(" \o JoinStr(argStrs, ", ") \o ") RETURN <type>"
        ELSE "PROCEDURE " \o name \o "(" \o JoinStr(argStrs, ", ") \o ")"

OracleGetRoutines(e) ==
    IF QueryErr(e, "routines") # NoErr THEN Fail(QueryErr(e, "routines"))
    ELSE LET rows == Natural(e, FilterRows(e, e.cat.routines))
             results == [i \in 1..Len(rows) |->
                 LET Row(args) ==
                         [val |-> Routine(rows[i].owner, rows[i].name, rows[i].type,
                                          rows[i].comment,
                                          OracleBuildSignature(rows[i].name, args.val, rows[i].type),
                                          args.val, "", "PL/SQL"),
                          err |-> args.err]
                 IN  Row(OracleGetRoutineArguments(e, rows[i]))]
         IN  LoopResult(results)

OracleGetSequences(e) ==
    IF QueryErr(e, "sequences") # NoErr THEN Fail(QueryErr(e, "sequences"))
    ELSE LET rows == Natural(e, FilterRows(e, e.cat.sequences))
         IN  Ok(Slice([i \in 1..Len(rows) |->
                 Sequence(rows[i].owner, rows[i], rows[i].cacheSize, rows[i].order)]))

\* ALL_TRIGGERS.TRIGGER_TYPE
OracleTriggerType(t) ==
    IF t.timing = "INSTEAD OF" THEN "INSTEAD OF"
    ELSE t.timing \o (IF t.eachRow THEN " EACH ROW" ELSE " STATEMENT")

OracleGetTriggers(e) ==
    IF QueryErr(e, "triggers") # NoErr THEN Fail(QueryErr(e, "triggers"))
    ELSE LET rows == Natural(e, FilterRows(e, e.cat.triggers))
         IN  Ok(Slice([i \in 1..Len(rows) |->
                 LET triggerType == OracleTriggerType(rows[i])
                 IN  Trigger(rows[i].owner, rows[i].name, rows[i].table,
                             FirstField(triggerType), rows[i].event,
                             IF Contains(triggerType, "EACH ROW") THEN "ROW" ELSE "STATEMENT",
                             IF rows[i].enabled THEN "ENABLED" ELSE "DISABLED")]))

\* OracleGetSynonyms without the owner filter
OracleGetSynonymsUnfiltered(e) ==
    IF QueryErr(e, "synonyms") # NoErr THEN Fail(QueryErr(e, "synonyms"))
    ELSE LET rows == Natural(e, e.cat.synonyms)
         IN  Ok(Slice([i \in 1..Len(rows) |->
                 Synonym(rows[i].owner, rows[i].name, rows[i].targetObject,
                         rows[i].targetOwner, rows[i].owner = "PUBLIC")]))

OracleGetSynonyms(e) ==
    IF QueryErr(e, "synonyms") # NoErr THEN Fail(QueryErr(e, "synonyms"))
    ELSE LET rows == Natural(e, FilterRows(e, e.cat.synonyms))
         IN  Ok(Slice([i \in 1..Len(rows) |->
                 Synonym(rows[i].owner, rows[i].name, rows[i].targetObject,
                         rows[i].targetOwner, rows[i].owner = "PUBLIC")]))

(***************************************************************************)
(* SQL Server adapter (mssql.Extractor).                                   *)
(***************************************************************************)
MSSQLNewExtractor(cfgFilter) ==
    IF Len(cfgFilter) = 0 THEN <<"dbo">> ELSE cfgFilter

MSSQLGetDatabaseInfo(e) ==
    IF QueryErr(e, "dbinfo") # NoErr
    THEN [name |-> "", version |-> "", err |-> QueryErr(e, "dbinfo")]
    ELSE [name |-> e.cat.dbName, version |-> e.cat.version, err |-> NoErr]

\* sys.foreign_key_columns rows of the column, each with its own referenced
\* column (COL_NAME: NULL when the caller may not read the column's
\* metadata); QueryRowContext scans the first row
MSSQLGetForeignKeyTarget(e, c) ==
    LET rows == [i \in 1..Len(c.fks) |->
                    [table  |-> c.fks[i].refOwner \o "." \o c.fks[i].refTable,
                     column |-> IF c.fks[i].colVisible
                                THEN c.fks[i].refCols[c.fks[i].pos] ELSE NULL]]
    IN  IF QueryErr(e, "fktarget") # NoErr THEN [val |-> Nil, err |-> QueryErr(e, "fktarget")]
        ELSE IF rows = <<>> THEN [val |-> Nil, err |-> ErrNoRows]
        ELSE [val |-> ScannedTarget(Natural(e, rows)[1]), err |-> NoErr]

MSSQLColumn(e, c) ==
    LET col == [Column(c.name, c.position, c.dataType) EXCEPT
                    !.IsPrimaryKey = c.pk,
                    !.IsForeignKey = (c.fks # <<>>),
                    !.IsUnique = (c.uniq > 0)]
        fk == MSSQLGetForeignKeyTarget(e, c)
    IN  IF col.IsForeignKey /\ fk.err = NoErr /\ fk.val # Nil
        THEN [col EXCEPT !.FKTargetTable = fk.val[1].table,
                         !.FKTargetColumn = fk.val[1].column]
        ELSE col

\* the three LEFT JOINs (primary-key index columns, foreign-key columns,
\* unique-index columns) yield one row per matching combination
MSSQLColumnRows(c) ==
    LET nFk == IF Len(c.fks) = 0 THEN 1 ELSE Len(c.fks)
        nUq == IF c.uniq = 0 THEN 1 ELSE c.uniq
    IN  [i \in 1..(nFk * nUq) |-> c]

MSSQLGetColumnsForTable(e, owner, tableName) ==
    IF QueryErr(e, "columns") # NoErr THEN FailSeq(QueryErr(e, "columns"))
    ELSE LET cols == ColumnsOrdered(RelationColumns(e.cat, owner, tableName))
             rows == Concat([i \in 1..Len(cols) |-> MSSQLColumnRows(cols[i])])
         IN  Ok([i \in 1..Len(rows) |-> MSSQLColumn(e, rows[i])])

MSSQLGetColumnsForView(e, owner, viewName) ==
    IF QueryErr(e, "columns") # NoErr THEN FailSeq(QueryErr(e, "columns"))
    ELSE LET rows == ColumnsOrdered(RelationColumns(e.cat, owner, viewName))
         IN  Ok([i \in 1..Len(rows) |->
                    Column(rows[i].name, rows[i].position, rows[i].dataType)])

\* sys.index_columns holds a row for every key column and for every included
\* column, the latter with key_ordinal 0; the query takes them all,
\* ORDER BY ic.key_ordinal
MSSQLGetIndexColumns(e, idx) ==
    IF QueryErr(e, "indexcols") # NoErr THEN FailSeq(QueryErr(e, "indexcols"))
    ELSE Ok(IndexColumnsOrdered(
                [idx EXCEPT !.keys = [i \in 1..Len(idx.included) |->
                                         [col |-> idx.included[i], ordinal |-> 0]]
                                     \o idx.keys]))

MSSQLGetIndexesForTable(e, owner, tableName) ==
    IF QueryErr(e, "indexes") # NoErr THEN FailSeq(QueryErr(e, "indexes"))
    ELSE LET rows == TableIndexes(e.cat, owner, tableName)
             results == [i \in 1..Len(rows) |->
                 LET Row(cols) ==
                         [val |-> Index(rows[i].name, tableName, owner, rows[i].type, cols.val,
                                        rows[i].unique, rows[i].primary),
                          err |-> cols.err]
                 IN  Row(MSSQLGetIndexColumns(e, rows[i]))]
         IN  IF FirstErr(results) # NoErr THEN FailSeq(FirstErr(results))
             ELSE Ok(Vals(results))

MSSQLGetTables(e) ==
    IF QueryErr(e, "tables") # NoErr
    THEN Fail(Wrap("failed to query tables", QueryErr(e, "tables")))
    ELSE LET rows == FilterRows(e, e.cat.tables)
             results == [i \in 1..Len(rows) |->
                 LET Row(cols, idxs) ==
                         [val |-> Table(rows[i].owner, rows[i].name, "USER_TABLE",
                                        rows[i].comment, rows[i].rowCount, cols.val, idxs.val),
                          err |-> IF cols.err # NoErr THEN cols.err ELSE idxs.err]
                 IN  Row(MSSQLGetColumnsForTable(AtTable(e, i), rows[i].owner, rows[i].name),
                         MSSQLGetIndexesForTable(AtTable(e, i), rows[i].owner, rows[i].name))]
         IN  TablesResult(e, results)

\* is_updatable is computed from sys.sql_modules.definition LIKE '%INSTEAD OF%'
MSSQLGetViews(e) ==
    IF QueryErr(e, "views") # NoErr THEN Fail(QueryErr(e, "views"))
    ELSE LET rows == Natural(e, FilterRows(e, e.cat.views))
             results == [i \in 1..Len(rows) |->
                 LET Row(cols) ==
                         [val |-> View(rows[i].owner, rows[i].name, "VIEW", rows[i].comment,
                                       Contains(rows[i].definition, "INSTEAD OF"), cols.val),
                          err |-> cols.err]
                 IN  Row(MSSQLGetColumnsForView(e, rows[i].owner, rows[i].name))]
         IN  LoopResult(results)

MSSQLGetRoutineParameters(e, r) ==
    IF QueryErr(e, "args") # NoErr THEN FailSeq(QueryErr(e, "args"))
    ELSE Ok(ArgsOrdered(r.args))

MSSQLBuildSignature(name, args, routineType) ==
    routineType \o " " \o name \o "("
    \o JoinStr([i \in 1..Len(args) |->
                   args[i].Name \o " " \o args[i].Mode \o " " \o args[i].DataType], ", ")
    \o ")"

\* sys.procedures holds procedures only; type_desc is the routine's Type
MSSQLGetRoutines(e) ==
    IF QueryErr(e, "routines") # NoErr THEN Fail(QueryErr(e, "routines"))
    ELSE LET rows == Natural(e, SelectSeq(FilterRows(e, e.cat.routines),
                                          LAMBDA r : r.type = "PROCEDURE"))
             results == [i \in 1..Len(rows) |->
                 LET Row(args, type) ==
                         [val |-> Routine(rows[i].owner, rows[i].name, type, rows[i].comment,
                                          MSSQLBuildSignature(rows[i].name, args.val, type),
                                          args.val, "", "T-SQL"),
                          err |-> args.err]
                 IN  Row(MSSQLGetRoutineParameters(e, rows[i]),
                         "SQL_STORED_PROCEDURE")]
         IN  LoopResult(results)

MSSQLGetSequences(e) ==
    IF QueryErr(e, "sequences") # NoErr THEN Fail(QueryErr(e, "sequences"))
    ELSE LET rows == Natural(e, FilterRows(e, e.cat.sequences))
         IN  Ok(Slice([i \in 1..Len(rows) |-> Sequence(rows[i].owner, rows[i], 0, FALSE)]))

\* the trigger's Owner is the schema of its table (sys.tables joined on parent_id)
MSSQLGetTriggers(e) ==
    IF QueryErr(e, "triggers") # NoErr THEN Fail(QueryErr(e, "triggers"))
    ELSE LET rows == Natural(e, SelectSeq(e.cat.triggers,
                                          LAMBDA t : OwnerIn(e, t.tableOwner)))
         IN  Ok(Slice([i \in 1..Len(rows) |->
                 Trigger(rows[i].tableOwner, rows[i].name, rows[i].table,
                         CASE rows[i].timing = "AFTER" -> "AFTER"
                           [] rows[i].timing = "INSTEAD OF" -> "INSTEAD OF"
                           [] OTHER -> "UNKNOWN",
                         rows[i].event, "ROW",
                         IF rows[i].enabled THEN "ENABLED" ELSE "DISABLED")]))

\* base_object_name is "<owner>.<object>": strings.Split yields both parts
MSSQLGetSynonyms(e) ==
    IF QueryErr(e, "synonyms") # NoErr THEN Fail(QueryErr(e, "synonyms"))
    ELSE LET rows == Natural(e, FilterRows(e, e.cat.synonyms))
         IN  Ok(Slice([i \in 1..Len(rows) |->
                 Synonym(rows[i].owner, rows[i].name, rows[i].targetObject,
                         rows[i].targetOwner, FALSE)]))

(***************************************************************************)
(* Dispatch through the DBExtractor interface, and the adapter factory's   *)
(* choice of constructor.                                                  *)
(***************************************************************************)
NewExtractor(a, cfgFilter) ==
    CASE a = "oracle"   -> OracleNewExtractor(cfgFilter)
      [] a = "mysql"    -> MySQLNewExtractor(cfgFilter)
      [] a = "postgres" -> PostgresNewExtractor(cfgFilter)
      [] a = "mssql"    -> MSSQLNewExtractor(cfgFilter)

GetDatabaseInfo(e) ==
    CASE e.adapter = "oracle"   -> OracleGetDatabaseInfo(e)
      [] e.adapter = "mysql"    -> MySQLGetDatabaseInfo(e)
      [] e.adapter = "postgres" -> PostgresGetDatabaseInfo(e)
      [] e.adapter = "mssql"    -> MSSQLGetDatabaseInfo(e)

GetTables(e) ==
    CASE e.adapter = "oracle"   -> OracleGetTables(e)
      [] e.adapter = "mysql"    -> MySQLGetTables(e)
      [] e.adapter = "postgres" -> PostgresGetTables(e)
      [] e.adapter = "mssql"    -> MSSQLGetTables(e)

GetViews(e) ==
    CASE e.adapter = "oracle"   -> OracleGetViews(e)
      [] e.adapter = "mysql"    -> MySQLGetViews(e)
      [] e.adapter = "postgres" -> PostgresGetViews(e)
      [] e.adapter = "mssql"    -> MSSQLGetViews(e)

GetRoutines(e) ==
    CASE e.adapter = "oracle"   -> OracleGetRoutines(e)
      [] e.adapter = "mysql"    -> MySQLGetRoutines(e)
      [] e.adapter = "postgres" -> PostgresGetRoutines(e)
      [] e.adapter = "mssql"    -> MSSQLGetRoutines(e)

GetSequences(e) ==
    CASE e.adapter = "oracle"   -> OracleGetSequences(e)
      [] e.adapter = "mysql"    -> MySQLGetSequences(e)
      [] e.adapter = "postgres" -> PostgresGetSequences(e)
      [] e.adapter = "mssql"    -> MSSQLGetSequences(e)

GetTriggers(e) ==
    CASE e.adapter = "oracle"   -> OracleGetTriggers(e)
      [] e.adapter = "mysql"    -> MySQLGetTriggers(e)
      [] e.adapter = "postgres" -> PostgresGetTriggers(e)
      [] e.adapter = "mssql"    -> MSSQLGetTriggers(e)

GetSynonyms(e) ==
    CASE e.adapter = "oracle"   -> OracleGetSynonyms(e)
      [] e.adapter = "mysql"    -> MySQLGetSynonyms(e)
      [] e.adapter = "postgres" -> PostgresGetSynonyms(e)
      [] e.adapter = "mssql"    -> MSSQLGetSynonyms(e)

(***************************************************************************)
(* The adapter factory (NewDBExtractor) and the adapters' connection       *)
(* handle.                                                                 *)
(***************************************************************************)
\* unicode.IsSpace, over the white space the tags of the model hold
IsSpace(c) == c \in {" ", "\t", "\n"}

RECURSIVE TrimLeft(_)
TrimLeft(s) ==
    IF Len(s) > 0 /\ IsSpace(SubSeq(s, 1, 1)) THEN TrimLeft(SubSeq(s, 2, Len(s))) ELSE s

RECURSIVE TrimRight(_)
TrimRight(s) ==
    IF Len(s) > 0 /\ IsSpace(SubSeq(s, Len(s), Len(s)))
    THEN TrimRight(SubSeq(s, 1, Len(s) - 1))
    ELSE s

\* strings.TrimSpace
TrimSpace(s) == TrimRight(TrimLeft(s))

UpperCase == "ABCDEFGHIJKLMNOPQRSTUVWXYZ"
LowerCase == "abcdefghijklmnopqrstuvwxyz"

\* unicode.ToLower of one character
LowerChar(c) ==
    IF \E i \in 1..Len(UpperCase) : SubSeq(UpperCase, i, i) = c
    THEN LET i == CHOOSE i \in 1..Len(UpperCase) : SubSeq(UpperCase, i, i) = c
         IN  SubSeq(LowerCase, i, i)
    ELSE c

\* strings.ToLower
RECURSIVE ToLower(_)
ToLower(s) ==
    IF Len(s) = 0 THEN ""
    ELSE LowerChar(SubSeq(s, 1, 1)) \o ToLower(SubSeq(s, 2, Len(s)))

\* GetSupportedDatabases
GetSupportedDatabases == <<"oracle", "mysql", "postgresql", "mssql">>

\* <dialect>.NewExtractor seen through the DBExtractor interface: sql.Open
\* fails or not (openErr); on failure the constructor returns a nil *Extractor,
\* which the factory's return statement turns into a non-nil interface value
\* holding a nil pointer.  An interface value is Nil or Ptr([dialect, extractor]).
NewAdapter(a, name, cfgFilter, openErr) ==
    IF openErr # NoErr
    THEN [adapter |-> Ptr([dialect |-> a, extractor |-> Nil]),
          err |-> Wrap("failed to open " \o name \o " connection", openErr)]
    ELSE [adapter |-> Ptr([dialect |-> a,
                           extractor |-> Ptr([db |-> "open",
                                              schemaFilter |-> NewExtractor(a, cfgFilter)])]),
          err |-> NoErr]

\* the default branch of NewDBExtractor
Unsupported(t) ==
    [adapter |-> Nil,
     err |-> <<"unsupported database type: " \o t
               \o " (supported: oracle, mysql, postgresql, mssql)">>]

\* the switch of NewDBExtractor over the trimmed, lower-cased tag
FactorySwitch(t, cfgFilter, openErr) ==
    CASE t = "oracle" -> NewAdapter("oracle", "oracle", cfgFilter, openErr)
      [] t = "mysql"  -> NewAdapter("mysql", "mysql", cfgFilter, openErr)
      [] t \in {"postgresql", "postgres", "pg"} ->
                         NewAdapter("postgres", "postgres", cfgFilter, openErr)
      [] t \in {"mssql", "sqlserver"} ->
                         NewAdapter("mssql", "mssql", cfgFilter, openErr)
      [] OTHER        -> Unsupported(t)

\* NewDBExtractor with the switch applied to the tag as given
NewDBExtractorVerbatim(dbType, cfgFilter, openErr) ==
    FactorySwitch(dbType, cfgFilter, openErr)

NewDBExtractor(dbType, cfgFilter, openErr) ==
    FactorySwitch(ToLower(TrimSpace(dbType)), cfgFilter, openErr)

\* Close without the nil check: e.db.Close() on a nil *sql.DB panics
CloseDBUnguarded(handle) == IF handle # "nil" THEN "closed" ELSE "panic"

\* (*Extractor).Close, the same in the four adapters, on the handle e.db:
\* if e.db != nil { return e.db.Close() }; return nil.  (*sql.DB).Close returns
\* nil at once when the pool is already closed.
CloseDB(handle) == IF handle # "nil" THEN "closed" ELSE handle

(***************************************************************************)
(* ExtractSchema: the statements of each adapter's orchestrator, in source *)
(* order.                                                                  *)
(***************************************************************************)
\* PostgresExtractSchema calling GetViews before GetTables
PostgresExtractSchemaViewsFirst ==
    <<"GetDatabaseInfo", "GetViews", "GetTables", "GetRoutines", "GetSequences",
      "GetTriggers", "GetSynonyms", "AggregateIndexes">>

OracleExtractSchema ==
    <<"GetDatabaseInfo", "GetTables", "GetViews", "GetRoutines", "GetSequences",
      "GetTriggers", "GetSynonyms", "AggregateIndexes">>

MySQLExtractSchema ==
    <<"GetDatabaseInfo", "GetTables", "GetViews", "GetRoutines", "GetSequences",
      "GetTriggers", "GetSynonyms", "AggregateIndexes">>

PostgresExtractSchema ==
    <<"GetDatabaseInfo", "GetTables", "GetViews", "GetRoutines", "GetSequences",
      "GetTriggers", "GetSynonyms", "AggregateIndexes">>

MSSQLExtractSchema ==
    <<"GetDatabaseInfo", "GetTables", "GetViews", "GetRoutines", "GetSequences",
      "GetTriggers", "GetSynonyms", "AggregateIndexes">>

StepsOf(a) ==
    CASE a = "oracle"   -> OracleExtractSchema
      [] a = "mysql"    -> MySQLExtractSchema
      [] a = "postgres" -> PostgresExtractSchema
      [] a = "mssql"    -> MSSQLExtractSchema

\* the statement after `step`, or the return
NextStep(a, step) ==
    LET steps == StepsOf(a)
        i == CHOOSE i \in 1..Len(steps) : steps[i] = step
    IN  IF i < Len(steps) THEN steps[i + 1] ELSE "returned"

\* schema.DatabaseType = "..."
DatabaseTypeOf(a) ==
    CASE a = "oracle"   -> "Oracle"
      [] a = "mysql"    -> "MySQL"
      [] a = "postgres" -> "PostgreSQL"
      [] a = "mssql"    -> "MSSQL"

\* StepError losing the step's error
StepErrorDropped(a, step, err) == NoErr

\* what ExtractSchema returns for a failed step: Oracle wraps, the others do not
StepError(a, step, err) ==
    IF a = "oracle"
    THEN Wrap(CASE step = "GetDatabaseInfo" -> "failed to get database info"
                [] step = "GetTables"       -> "failed to get tables"
                [] step = "GetViews"        -> "failed to get views"
                [] step = "GetRoutines"     -> "failed to get routines"
                [] step = "GetSequences"    -> "failed to get sequences"
                [] step = "GetTriggers"     -> "failed to get triggers"
                [] step = "GetSynonyms"     -> "failed to get synonyms"
                [] OTHER                    -> "", err)
    ELSE err

\* schema := &model.Schema{ExtractedAt: time.Now()}; the timestamp is left out
NewSchema ==
    [DatabaseName |-> "", DatabaseType |-> "", Version |-> "",
     Tables |-> NilSlice, Views |-> NilSlice, Routines |-> NilSlice,
     Sequences |-> NilSlice, Triggers |-> NilSlice, Synonyms |-> NilSlice,
     Indexes |-> NilSlice]

\* the loop with each table's indexes put in front of those collected so far
CollectIndexesPrepending(tables) ==
    Slice(Concat(Reverse([i \in 1..Len(tables.elems) |-> tables.elems[i].Indexes])))

\* for _, table := range schema.Tables { schema.Indexes = append(..., table.Indexes...) }
CollectIndexes(tables) ==
    Slice(Concat([i \in 1..Len(tables.elems) |-> tables.elems[i].Indexes]))

\* schema.DatabaseName, schema.Version, err = e.GetDatabaseInfo(ctx)
AssignInfo(sch, a, r) ==
    [schema |-> [sch EXCEPT !.DatabaseName = r.name, !.Version = r.version,
                            !.DatabaseType = DatabaseTypeOf(a)],
     err |-> r.err]

\* schema.<field>, err = e.Get<field>(ctx)
Assign(sch, field, r) == [schema |-> [sch EXCEPT ![field] = r.val], err |-> r.err]

\* one statement of ExtractSchema: the schema after it and the error it saw
StepOutcome(e, step, sch) ==
    CASE step = "GetDatabaseInfo"  -> AssignInfo(sch, e.adapter, GetDatabaseInfo(e))
      [] step = "GetTables"        -> Assign(sch, "Tables", GetTables(e))
      [] step = "GetViews"         -> Assign(sch, "Views", GetViews(e))
      [] step = "GetRoutines"      -> Assign(sch, "Routines", GetRoutines(e))
      [] step = "GetSequences"     -> Assign(sch, "Sequences", GetSequences(e))
      [] step = "GetTriggers"      -> Assign(sch, "Triggers", GetTriggers(e))
      [] step = "GetSynonyms"      -> Assign(sch, "Synonyms", GetSynonyms(e))
      [] step = "AggregateIndexes" ->
            [schema |-> [sch EXCEPT !.Indexes = CollectIndexes(sch.Tables)], err |-> NoErr]

\* a whole ExtractSchema call against an unchanging connection
RECURSIVE RunSteps(_, _, _)
\* the error check after a statement: return nil and the error, or go on
StepResult(e, steps, o) ==
    IF o.err # NoErr
    THEN [schema |-> Nil, err |-> StepError(e.adapter, Head(steps), o.err)]
    ELSE RunSteps(e, Tail(steps), o.schema)

RunSteps(e, steps, sch) ==
    IF steps = <<>> THEN [schema |-> Ptr(sch), err |-> NoErr]
    ELSE StepResult(e, steps, StepOutcome(e, Head(steps), sch))

ExtractSchemaOf(e) == RunSteps(e, StepsOf(e.adapter), NewSchema)

(***************************************************************************)
(* The model validator (validateNoSourceCodeFields) over schema.go.        *)
(***************************************************************************)
\* the struct types of internal/model/schema.go, in declaration order
StructOrder ==
    <<"Schema", "Table", "View", "Column", "Routine", "RoutineArgument",
      "Index", "Sequence", "Trigger", "Synonym">>

\* StructFields with a Definition field declared on View
StructFieldsWithDefinition ==
    [s \in Range(StructOrder) |->
        IF s = "View" THEN {"Name", "Owner", "Type", "Comment", "Columns", "Definition"}
        ELSE {"Name", "Comment"}]

\* the fields each struct declares
StructFields ==
    [s \in Range(StructOrder) |->
        CASE s = "Schema" ->
                {"DatabaseName", "DatabaseType", "Version", "ExtractedAt", "Comment",
                 "Tables", "Views", "Routines", "Sequences", "Triggers", "Synonyms",
                 "Indexes"}
          [] s = "Table" ->
                {"Name", "Owner", "Type", "Comment", "Columns", "Indexes", "RowCount",
                 "CreatedAt", "ModifiedAt"}
          [] s = "View" ->
                {"Name", "Owner", "Type", "Comment", "Columns", "IsUpdatable",
                 "CreatedAt", "ModifiedAt"}
          [] s = "Column" ->
                {"Name", "Position", "DataType", "Length", "Precision", "Scale",
                 "Nullable", "DefaultValue", "Comment", "IsPrimaryKey", "IsForeignKey",
                 "IsUnique", "FKTargetTable", "FKTargetColumn", "IsAutoIncrement",
                 "CharacterSet", "Collation"}
          [] s = "Routine" ->
                {"Name", "Owner", "Type", "Comment", "Signature", "Arguments",
                 "ReturnType", "Language", "IsDeterministic", "SecurityType",
                 "CreatedAt", "ModifiedAt"}
          [] s = "RoutineArgument" ->
                {"Name", "Position", "Mode", "DataType", "DefaultValue", "Comment"}
          [] s = "Index" ->
                {"Name", "TableName", "Owner", "Type", "Columns", "IsUnique",
                 "IsPrimary", "IsEnabled", "Comment", "CreatedAt"}
          [] s = "Sequence" ->
                {"Name", "Owner", "MinValue", "MaxValue", "Increment", "LastNumber",
                 "CacheSize", "IsCyclic", "IsOrdered", "Comment", "CreatedAt"}
          [] s = "Trigger" ->
                {"Name", "Owner", "TargetTable", "TargetType", "Timing", "Event",
                 "Level", "Status", "Comment", "CreatedAt", "ModifiedAt"}
          [] s = "Synonym" ->
                {"Name", "Owner", "TargetObject", "TargetOwner", "TargetType",
                 "IsPublic", "Comment", "CreatedAt"}]

forbiddenFields == {"Body", "Definition", "Script", "Text", "Source"}

(***************************************************************************)
(* State machine.                                                          *)
(***************************************************************************)
Self == Extractor(adapter, schemaFilter, catalog, failQ, cancelled, rowOrder)

DefaultBody == "SELECT ID FROM EMP"

\* the tags (database.type of the configuration file) the runs are given
DatabaseTypes ==
    {"oracle", " Oracle\t", "mysql", "MYSQL ", "postgresql", "Postgres", "pg", "\nPG",
     "mssql", "sqlserver", " SqlServer", "db2", "sqlite", "postgre", "ora cle", "", "  "}

\* values of the -mode flag
CliModes == {"extract", "export", "preview", "bogus"}

\* what fails during a run of the CLI: sql.Open, the ping of Connect, the table
\* query of ExtractSchema, NewExporter, os.Create, Export, ui.NewServer
CliFailures == {"none", "open", "ping", "tables", "exporter", "create", "export", "server"}

\* the dialect of the server the configuration points at
ServerDialect(dbType) ==
    IF NewDBExtractor(dbType, <<>>, NoErr).adapter = Nil THEN "oracle"
    ELSE NewDBExtractor(dbType, <<>>, NoErr).adapter[1].dialect

(***************************************************************************)
(* Exporters: the factory and the Export method of each format.            *)
(***************************************************************************)
\* exportConfig := exporter.Config{...} as main builds it from the file's
\* output section
ExportConfig ==
    [Language |-> "en", IncludeTOC |-> TRUE, IncludeCoverPage |-> TRUE,
     CompanyName |-> "ACME", ProjectName |-> "HR", Author |-> "dba",
     ExcludeTypes |-> <<>>, ColorScheme |-> "blue"]

\* the switch of NewExporter over the tag it is given: the exporter of the
\* format, an interface value Ptr([format, config]), or nil and an error
ExporterSwitch(format, cfg) ==
    CASE format \in {"xlsx", "excel"} ->
             [exporter |-> Ptr([format |-> "xlsx",
                                config |-> [Language |-> cfg.Language,
                                            ExcludeTypes |-> cfg.ExcludeTypes,
                                            ColorScheme |-> cfg.ColorScheme]]),
              err |-> NoErr]
      [] format \in {"docx", "word"} ->
             [exporter |-> Ptr([format |-> "docx",
                                config |-> [Language |-> cfg.Language,
                                            IncludeTOC |-> cfg.IncludeTOC,
                                            IncludeCoverPage |-> cfg.IncludeCoverPage,
                                            CompanyName |-> cfg.CompanyName,
                                            ProjectName |-> cfg.ProjectName,
                                            Author |-> cfg.Author,
                                            ExcludeTypes |-> cfg.ExcludeTypes,
                                            ColorScheme |-> cfg.ColorScheme]]),
              err |-> NoErr]
      [] format = "html" ->
             [exporter |-> Ptr([format |-> "html",
                                config |-> [Language |-> cfg.Language,
                                            Title |-> "Schema Documentation"]]),
              err |-> NoErr]
      [] OTHER ->
             [exporter |-> Nil,
              err |-> <<"unsupported export format: " \o format
                        \o " (supported: xlsx, docx, html)">>]

\* a factory that switches over the tag as given
NewExporterVerbatim(format, cfg) == ExporterSwitch(format, cfg)

\* exporter.NewExporter: format = strings.ToLower(strings.TrimSpace(format)),
\* then the switch
NewExporter(format, cfg) == ExporterSwitch(ToLower(TrimSpace(format)), cfg)

\* GetSupportedFormats
GetSupportedFormats == <<"xlsx", "docx", "html">>

\* what a write of data to the io.Writer w leaves in it and returns: a writer
\* is "ok" (a file, a response) or "failing" (every Write returns an error)
WriteTo(w, data) ==
    IF w = "ok" THEN [out |-> data, err |-> NoErr]
    ELSE [out |-> <<>>, err |-> <<"write failed">>]

\* the rows of the four sheets writeOverview, writeTables, writeColumns and
\* writeObjects fill, below the header row
XlsxSheets(sch) ==
    <<[name |-> "Overview",
       rows |-> <<<<"Database Name", sch.DatabaseName>>,
                  <<"Database Type", sch.DatabaseType>>,
                  <<"Version", sch.Version>>,
                  <<"Total Tables", ToString(Len(sch.Tables.elems))>>,
                  <<"Total Views", ToString(Len(sch.Views.elems))>>,
                  <<"Total Routines", ToString(Len(sch.Routines.elems))>>,
                  <<"Total Sequences", ToString(Len(sch.Sequences.elems))>>,
                  <<"Total Triggers", ToString(Len(sch.Triggers.elems))>>,
                  <<"Total Synonyms", ToString(Len(sch.Synonyms.elems))>>,
                  <<"Total Indexes", ToString(Len(sch.Indexes.elems))>>>>],
      [name |-> "Tables",
       rows |-> [i \in 1..Len(sch.Tables.elems) |->
                    <<sch.Tables.elems[i].Name, sch.Tables.elems[i].Owner,
                      ToString(Len(sch.Tables.elems[i].Columns)),
                      ToString(Len(sch.Tables.elems[i].Indexes))>>]],
      [name |-> "Columns",
       rows |-> Concat([i \in 1..Len(sch.Tables.elems) |->
                    [j \in 1..Len(sch.Tables.elems[i].Columns) |->
                        <<sch.Tables.elems[i].Name,
                          sch.Tables.elems[i].Columns[j].Name,
                          ToString(sch.Tables.elems[i].Columns[j].Position)>>]])],
      [name |-> "Objects",
       rows |-> [i \in 1..Len(sch.Views.elems) |-> <<"View", sch.Views.elems[i].Name>>]
                \o [i \in 1..Len(sch.Routines.elems) |->
                       <<"Routine", sch.Routines.elems[i].Name>>]
                \o [i \in 1..Len(sch.Sequences.elems) |->
                       <<"Sequence", sch.Sequences.elems[i].Name>>]
                \o [i \in 1..Len(sch.Triggers.elems) |->
                       <<"Trigger", sch.Triggers.elems[i].Name>>]
                \o [i \in 1..Len(sch.Synonyms.elems) |->
                       <<"Synonym", sch.Synonyms.elems[i].Name>>]]>>

\* an Export that, once the sheets are filled, releases the aggregated index
\* list of the Schema it was handed (schema.Indexes = nil)
XlsxExportReleasingIndexes(sch, w) ==
    LET Written(r) == [schema |-> [sch EXCEPT !.Indexes = NilSlice],
                       out |-> r.out, err |-> r.err]
    IN  Written(WriteTo(w, <<[name |-> "workbook", rows |-> XlsxSheets(sch)]>>))

\* xlsx.Exporter.Export: a new workbook, the four sheets filled from the Schema,
\* then f.Write(w), whose error is the result; the Schema is only read
XlsxExport(sch, w) ==
    LET Written(r) == [schema |-> sch, out |-> r.out, err |-> r.err]
    IN  Written(WriteTo(w, <<[name |-> "workbook", rows |-> XlsxSheets(sch)]>>))

\* the paragraphs writeDocument puts into word/document.xml
DocxBody(sch) ==
    <<<<"Title", sch.DatabaseName>>, <<"Type", sch.DatabaseType>>,
      <<"Version", sch.Version>>,
      <<"Tables", ToString(Len(sch.Tables.elems))>>,
      <<"Views", ToString(Len(sch.Views.elems))>>,
      <<"Routines", ToString(Len(sch.Routines.elems))>>>>
    \o Concat([i \in 1..Len(sch.Tables.elems) |->
          <<<<"Heading2", sch.Tables.elems[i].Name>>>>
          \o [j \in 1..Len(sch.Tables.elems[i].Columns) |->
                <<"Row", sch.Tables.elems[i].Columns[j].Name>>]])

\* the entries of the archive docx.Exporter.Export creates, in order
DocxEntries(sch) ==
    <<[name |-> "[Content_Types].xml", rows |-> <<>>],
      [name |-> "_rels/.rels", rows |-> <<>>],
      [name |-> "word/_rels/document.xml.rels", rows |-> <<>>],
      [name |-> "word/document.xml", rows |-> DocxBody(sch)],
      [name |-> "word/styles.xml", rows |-> <<>>]>>

\* docx.Exporter.Export: the five entries written through a zip.Writer, which
\* buffers what it is given; defer zipWriter.Close() writes the rest and the
\* directory, and its error is dropped.  On a failing writer the error shows
\* only when the buffer overflowed before the last entry was created
\* (overflow); else Export returns nil with nothing written.
DocxExport(sch, w, overflow) ==
    LET Written(r) == [schema |-> sch, out |-> r.out,
                       err |-> IF overflow THEN r.err ELSE NoErr]
    IN  Written(WriteTo(w, DocxEntries(sch)
                           \o <<[name |-> "central directory", rows |-> <<>>]>>))

\* what the template of the html exporter renders from the Schema
HtmlDocument(sch) ==
    <<<<"title", sch.DatabaseName>>, <<"h1", sch.DatabaseName>>,
      <<"type", sch.DatabaseType>>, <<"version", sch.Version>>,
      <<"tables", ToString(Len(sch.Tables.elems))>>,
      <<"views", ToString(Len(sch.Views.elems))>>,
      <<"routines", ToString(Len(sch.Routines.elems))>>,
      <<"triggers", ToString(Len(sch.Triggers.elems))>>>>
    \o [i \in 1..Len(sch.Tables.elems) |-> <<"tr", sch.Tables.elems[i].Name>>]
    \o Concat([i \in 1..Len(sch.Tables.elems) |->
          <<<<"h3", sch.Tables.elems[i].Name>>>>
          \o [j \in 1..Len(sch.Tables.elems[i].Columns) |->
                <<"td", sch.Tables.elems[i].Columns[j].Name>>]])
    \o [i \in 1..Len(sch.Routines.elems) |-> <<"routine", sch.Routines.elems[i].Signature>>]
    \o [i \in 1..Len(sch.Triggers.elems) |-> <<"trigger", sch.Triggers.elems[i].Name>>]
    \o [i \in 1..Len(sch.Sequences.elems) |-> <<"sequence", sch.Sequences.elems[i].Name>>]

\* html.Exporter.Export: tmpl.Execute(w, schema), whose error is the result
HtmlExport(sch, w) ==
    LET Written(r) == [schema |-> sch, out |-> r.out, err |-> r.err]
    IN  Written(WriteTo(w, <<[name |-> "document", rows |-> HtmlDocument(sch)]>>))

\* exp.Export(schema, w) through the Exporter interface: the Schema after the
\* call, what reached w and the error returned
Export(exp, sch, w, overflow) ==
    CASE exp.format = "xlsx" -> XlsxExport(sch, w)
      [] exp.format = "docx" -> DocxExport(sch, w, overflow)
      [] exp.format = "html" -> HtmlExport(sch, w)

\* the tags a caller hands to NewExporter
FormatTags == {"xlsx", "html", "docx", "excel", "word", " XLSX", "Html\n", "pdf", "", "xls"}

\* the writers a caller hands to Export
Writers == {"ok", "failing"}

\* a Schema as ExtractSchema assembles it from the catalog of dialect a
PopulatedSchema(a) ==
    ExtractSchemaOf(Extractor(a, NewExtractor(a, <<>>),
                              CatalogOf(a, "fk", DefaultBody, DefaultBody),
                              "none", FALSE, "fwd")).schema[1]

\* a caller of the exporter package, as TestGenerateArtifacts and main are:
\* NewExporter with a tag, then Export of a populated Schema to a writer
InitExport ==
    /\ mode = "export"
    /\ adapter \in Adapters
    /\ \E tag \in FormatTags, w \in Writers :
          config = [Format |-> tag, Writer |-> w, Export |-> ExportConfig]
    /\ catalog = CatalogOf(adapter, "fk", DefaultBody, DefaultBody)
    /\ schemaFilter = <<>>
    /\ failQ = "none"
    /\ rowOrder = "fwd"
    /\ pc = "NewExporter"
    /\ db = "closed"

\* the paths a client requests
Paths == {"/", "/export/excel", "/export/word", "/favicon.ico"}

MaxRequests == 2

\* a request the server has not accepted yet
NoRequest ==
    [path |-> "", handler |-> "", conn |-> "ok", pc |-> "idle", exporter |-> Nil,
     status |-> 0, contentType |-> "", body |-> <<>>]

\* main in preview mode after ui.NewServer(schema, exportConfig) and
\* RegisterRoutes: the Server holds the extracted Schema and the configuration,
\* and net/http runs each request's handler on a goroutine of its own
InitServe ==
    /\ mode = "serve"
    /\ adapter \in Adapters
    /\ config = [Export |-> ExportConfig]
    /\ catalog = CatalogOf(adapter, "fk", DefaultBody, DefaultBody)
    /\ schemaFilter = <<>>
    /\ failQ = "none"
    /\ rowOrder = "fwd"
    /\ pc = "ListenAndServe"
    /\ db = "open"

InitExtract ==
    /\ mode = "extract"
    /\ adapter \in Adapters
    /\ \E cfgFilter \in SchemaFilters :
          /\ config = [SchemaFilter |-> cfgFilter, Database |-> CfgDatabase,
                       Username |-> CfgUsername]
          /\ schemaFilter = NewExtractor(adapter, cfgFilter)
    /\ \E kind \in ColKinds, def \in BodyTexts :
          catalog = CatalogOf(adapter, kind, def, DefaultBody)
    /\ failQ \in {"none"} \cup QueryKinds
    /\ rowOrder \in {"fwd", "rev"}
    /\ pc = "idle"
    /\ db = "open"

InitValidate ==
    /\ mode = "validate"
    /\ adapter = "oracle"
    /\ config = [SchemaFilter |-> <<>>, Database |-> CfgDatabase, Username |-> CfgUsername]
    /\ schemaFilter = <<>>
    /\ catalog = CatalogOf("oracle", "plain", DefaultBody, DefaultBody)
    /\ failQ = "none"
    /\ rowOrder = "fwd"
    /\ pc = "inspect"
    /\ db = "nil"

\* main before NewDBExtractor: flags parsed, configuration loaded
InitCli ==
    /\ mode = "cli"
    /\ adapter = "none"
    /\ \E dbType \in DatabaseTypes, flagMode \in CliModes :
          /\ config = [SchemaFilter |-> <<>>, Database |-> CfgDatabase,
                       Username |-> CfgUsername, Type |-> dbType, Mode |-> flagMode]
          /\ catalog = CatalogOf(ServerDialect(dbType), "fk", DefaultBody, DefaultBody)
    /\ schemaFilter = <<>>
    /\ failQ \in CliFailures
    /\ rowOrder = "fwd"
    /\ pc = "NewDBExtractor"
    /\ db = "nil"

\* an adapter in the hands of a caller: built by NewExtractor and not yet
\* connected (Handle "open": sql.Open does not connect), or a zero Extractor{}
InitLifecycle ==
    /\ mode = "lifecycle"
    /\ adapter \in Adapters
    /\ \E handle \in {"open", "nil"} :
          /\ config = [SchemaFilter |-> <<>>, Database |-> CfgDatabase,
                       Username |-> CfgUsername, Handle |-> handle]
          /\ db = handle
    /\ schemaFilter = NewExtractor(adapter, <<>>)
    /\ catalog = CatalogOf(adapter, "plain", DefaultBody, DefaultBody)
    /\ failQ \in {"none", "ping"}
    /\ rowOrder = "fwd"
    /\ pc = "ready"

Init ==
    /\ \/ InitExtract
       \/ InitValidate
       \/ InitCli
       \/ InitLifecycle
       \/ InitExport
       \/ InitServe
    /\ cancelled = FALSE
    /\ schema = IF mode \in {"export", "serve"} THEN PopulatedSchema(adapter) ELSE NewSchema
    /\ exporter = Nil
    /\ written = <<>>
    /\ requests = IF mode = "serve" THEN [r \in 1..MaxRequests |-> NoRequest] ELSE <<>>
    /\ trace = <<>>
    /\ ret = Nil
    /\ inspected = 0
    /\ violations = {}
    /\ closeCalls = 0
    /\ exitCode = Nil

\* ExtractSchema is entered: schema := &model.Schema{...}
ExtractSchema ==
    /\ mode = "extract"
    /\ pc = "idle"
    /\ schema' = NewSchema
    /\ pc' = Head(StepsOf(adapter))
    /\ UNCHANGED <<db, closeCalls, exitCode, adapter, config, schemaFilter, catalog, failQ,
                   rowOrder,
                   cancelled, mode, trace, ret, inspected, violations, exporter, written, requests>>

(***************************************************************************)
(* Result sets and the queries in flight.  Every Get* runs its nested      *)
(* queries inside `for rows.Next()`, with `defer rows.Close()` pending: the *)
(* outer result set stays open while a nested query is issued.  A result   *)
(* set whose loop has ended is closed (Next closes it on exhaustion).      *)
(***************************************************************************)
\* the result sets still open when a query of this kind is issued
OpenResultSets(kind) ==
    CASE kind \in {"columns", "constraints", "indexes", "args"} -> 1
      [] kind \in {"fktarget", "indexcols"}                     -> 2
      [] OTHER                                                   -> 0

\* the query a step starts with ("none": the step reads no catalog)
StepQuery(step) ==
    CASE step = "GetDatabaseInfo" -> "dbinfo"
      [] step = "GetTables"       -> "tables"
      [] step = "GetViews"        -> "views"
      [] step = "GetRoutines"     -> "routines"
      [] step = "GetSequences"    -> "sequences"
      [] step = "GetTriggers"     -> "triggers"
      [] step = "GetSynonyms"     -> "synonyms"
      [] OTHER                    -> "none"

\* the rows the loop of a step with nested queries runs over
StepRows(e, step) ==
    CASE step = "GetTables"   -> FilterRows(e, e.cat.tables)
      [] step = "GetViews"    -> FilterRows(e, e.cat.views)
      [] step = "GetRoutines" ->
            IF e.adapter = "postgres" THEN <<>>
            ELSE IF e.adapter = "mssql"
                 THEN SelectSeq(FilterRows(e, e.cat.routines), LAMBDA r : r.type = "PROCEDURE")
                 ELSE FilterRows(e, e.cat.routines)
      [] OTHER                -> <<>>

\* the column row makes getColumnsForTable call getForeignKeyTarget
LooksTargetUp(a, c) ==
    CASE a = "oracle" -> FALSE
      [] a = "mysql"  -> ColumnKey(c) \in {"MUL", "FOR"}
      [] OTHER        -> c.fks # <<>>

\* the nested queries issued while the loop of GetTables is on table row t.
\* All table rows of the catalog have the same columns and indexes, so the
\* first row shows every nested query a later row can issue.
TableRowQueries(e, t) ==
    LET cols == RelationColumns(e.cat, t.owner, t.name)
        columnsDone ==
            /\ QueryErr(e, "columns") = NoErr
            /\ e.adapter = "oracle" => QueryErr(e, "constraints") = NoErr
    IN  {"columns"}
        \cup {k \in {"constraints"} : e.adapter = "oracle" /\ QueryErr(e, "columns") = NoErr}
        \cup {k \in {"fktarget"} :
                 /\ QueryErr(e, "columns") = NoErr
                 /\ \E c \in Range(cols) : LooksTargetUp(e.adapter, c)}
        \cup {k \in {"indexes"} : columnsDone}
        \cup {k \in {"indexcols"} :
                 /\ columnsDone
                 /\ QueryErr(e, "indexes") = NoErr
                 /\ TableIndexes(e.cat, t.owner, t.name) # <<>>}

\* the kinds of query a Get* call issues
IssuedQueries(e, step) ==
    {k \in {StepQuery(step)} : k # "none"}
    \cup (IF QueryErr(e, StepQuery(step)) # NoErr \/ StepRows(e, step) = <<>> THEN {}
          ELSE CASE step = "GetTables"   -> TableRowQueries(AtTable(e, 1), StepRows(e, step)[1])
                 [] step = "GetViews"    -> {"columns"}
                 [] step = "GetRoutines" -> {"args"}
                 [] OTHER                -> {})

\* the largest number of queries in flight at once during a Get* call: the
\* open result sets plus the query being issued
QueriesInFlight(e, step) ==
    IF IssuedQueries(e, step) = {} THEN 0
    ELSE CHOOSE n \in 1..3 :
             /\ \E k \in IssuedQueries(e, step) : n = OpenResultSets(k) + 1
             /\ \A k \in IssuedQueries(e, step) : n >= OpenResultSets(k) + 1

\* the extractor during a call in which ctx is cancelled at point p (Nil: not at all)
SelfAt(p) == [Self EXCEPT !.cancelAt = p]

\* the moments of a GetTables call at which the caller's cancel can arrive: during
\* the table query, or at table row i during a nested query or after the last one
CancelPoints(e) ==
    {[table |-> 0, rank |-> 0, rowsErr |-> FALSE]}
    \cup {[table |-> i, rank |-> r, rowsErr |-> b] :
              i \in 1..Len(FilterRows(e, e.cat.tables)),
              r \in 1..AfterRow,
              b \in {FALSE, TRUE}}

\* GetTables is still running when it gets to point p: no query failed before
StillRunningAt(p) ==
    GetTables([SelfAt(Ptr(p)) EXCEPT !.probe = TRUE]).err = NoErr

\* the statement of ExtractSchema at pc, whose call and assignment gave outcome:
\* the error check, and `return schema, nil` after the last statement.  p is the
\* point of the call at which the caller cancels ctx, Nil when it does not.
StepAt(step, p, outcome) ==
    /\ \E o \in {outcome} :
           /\ trace' = Append(trace, [step |-> step, err |-> o.err, ctxDone |-> cancelled,
                                      cancelAt |-> p,
                                      inFlight |-> QueriesInFlight(SelfAt(p), step)])
           /\ schema' = o.schema
           /\ IF o.err # NoErr
              THEN /\ ret' = [schema |-> Nil, err |-> StepError(adapter, step, o.err)]
                   /\ pc' = "returned"
              ELSE /\ pc' = NextStep(adapter, step)
                   /\ ret' = IF NextStep(adapter, step) = "returned"
                             THEN [schema |-> Ptr(o.schema), err |-> NoErr]
                             ELSE ret
    /\ cancelled' = (cancelled \/ p # Nil)
    /\ UNCHANGED <<db, closeCalls, exitCode, adapter, config, schemaFilter, catalog, failQ,
                   rowOrder,
                   mode, inspected, violations, exporter, written, requests>>

Step(step, outcome) == StepAt(step, Nil, outcome)

CallGetDatabaseInfo ==
    /\ mode = "extract"
    /\ pc = "GetDatabaseInfo"
    /\ Step("GetDatabaseInfo", AssignInfo(schema, adapter, GetDatabaseInfo(Self)))

\* GetTables, with or without a cancel arriving while it runs
CallGetTables ==
    /\ mode = "extract"
    /\ pc = "GetTables"
    /\ \E p \in {Nil} \cup {Ptr(q) : q \in {c \in CancelPoints(Self) :
                                              /\ ~cancelled
                                              /\ c.rowsErr => c.rank = AfterRow
                                              /\ StillRunningAt(c)}} :
           StepAt("GetTables", p, Assign(schema, "Tables", GetTables(SelfAt(p))))

CallGetViews ==
    /\ mode = "extract"
    /\ pc = "GetViews"
    /\ Step("GetViews", Assign(schema, "Views", GetViews(Self)))

CallGetRoutines ==
    /\ mode = "extract"
    /\ pc = "GetRoutines"
    /\ Step("GetRoutines", Assign(schema, "Routines", GetRoutines(Self)))

CallGetSequences ==
    /\ mode = "extract"
    /\ pc = "GetSequences"
    /\ Step("GetSequences", Assign(schema, "Sequences", GetSequences(Self)))

CallGetTriggers ==
    /\ mode = "extract"
    /\ pc = "GetTriggers"
    /\ Step("GetTriggers", Assign(schema, "Triggers", GetTriggers(Self)))

CallGetSynonyms ==
    /\ mode = "extract"
    /\ pc = "GetSynonyms"
    /\ Step("GetSynonyms", Assign(schema, "Synonyms", GetSynonyms(Self)))

\* the loop over schema.Tables, then `return schema, nil`
AggregateIndexes ==
    /\ mode = "extract"
    /\ pc = "AggregateIndexes"
    /\ Step("AggregateIndexes", [schema |-> [schema EXCEPT !.Indexes = CollectIndexes(schema.Tables)],
                                 err |-> NoErr])

\* the caller cancels ctx while ExtractSchema is running or before it starts
Cancel ==
    /\ mode = "extract"
    /\ pc # "returned"
    /\ ~cancelled
    /\ cancelled' = TRUE
    /\ UNCHANGED <<db, closeCalls, exitCode, adapter, config, schemaFilter, catalog, failQ,
                   rowOrder, mode,
                   pc, schema, trace, ret, inspected, violations, exporter, written, requests>>

\* ast.Inspect visits the next struct type and records its forbidden fields
ValidatorInspect ==
    /\ mode = "validate"
    /\ pc = "inspect"
    /\ inspected < Len(StructOrder)
    /\ LET s == StructOrder[inspected + 1]
       IN  violations' = violations \cup
                {<<s, f>> : f \in StructFields[s] \cap forbiddenFields}
    /\ inspected' = inspected + 1
    /\ UNCHANGED <<db, closeCalls, exitCode, adapter, config, schemaFilter, catalog, failQ,
                   rowOrder,
                   cancelled, mode, pc, schema, trace, ret, exporter, written, requests>>

\* result.Passed = len(violations) == 0
ValidatorReport ==
    /\ mode = "validate"
    /\ pc = "inspect"
    /\ inspected = Len(StructOrder)
    /\ ret' = [Passed |-> violations = {}, Violations |-> violations]
    /\ pc' = "validated"
    /\ UNCHANGED <<db, closeCalls, exitCode, adapter, config, schemaFilter, catalog, failQ,
                   rowOrder,
                   cancelled, mode, schema, trace, inspected, violations, exporter, written, requests>>

(***************************************************************************)
(* The CLI (cmd/pocket-doc/main.go).                                       *)
(***************************************************************************)
\* the variables no statement of main writes
CliFrame ==
    UNCHANGED <<config, catalog, failQ, rowOrder, cancelled, mode, schema, trace,
                inspected, violations, exporter, written, requests>>

\* log.Fatalf: os.Exit(1); deferred calls do not run
Fatalf ==
    /\ pc' = "exited"
    /\ exitCode' = Ptr(1)

\* a statement of main that calls something and ends the process when it fails
CliStatement(err, next) ==
    /\ ret' = [err |-> err]
    /\ IF err # NoErr THEN Fatalf ELSE pc' = next /\ UNCHANGED exitCode
    /\ UNCHANGED <<adapter, schemaFilter, db, closeCalls>>
    /\ CliFrame

\* ext, err := extractor.NewDBExtractor(cfg.Database.Type, extractorConfig);
\* if err != nil { log.Fatalf(...) }; defer ext.Close()
CallNewDBExtractor ==
    /\ mode = "cli"
    /\ pc = "NewDBExtractor"
    /\ \E r \in {NewDBExtractor(config.Type, config.SchemaFilter,
                                IF failQ = "open" THEN <<"sql: open failed">> ELSE NoErr)} :
          /\ ret' = r
          /\ adapter' = IF r.adapter = Nil THEN "none" ELSE r.adapter[1].dialect
          /\ IF r.err # NoErr
             THEN /\ Fatalf
                  /\ UNCHANGED <<schemaFilter, db>>
             ELSE /\ schemaFilter' = r.adapter[1].extractor[1].schemaFilter
                  /\ db' = r.adapter[1].extractor[1].db
                  /\ pc' = "Connect"
                  /\ UNCHANGED exitCode
    /\ UNCHANGED closeCalls
    /\ CliFrame

\* if err := ext.Connect(ctx); err != nil { log.Fatalf(...) }
CliConnect ==
    /\ mode = "cli"
    /\ pc = "Connect"
    /\ CliStatement(IF failQ = "ping" THEN <<"connection refused">> ELSE NoErr,
                 "ExtractSchema")

\* schema, err := ext.ExtractSchema(ctx); if err != nil { log.Fatalf(...) }
CliExtractSchema ==
    /\ mode = "cli"
    /\ pc = "ExtractSchema"
    /\ CliStatement(ExtractSchemaOf(Self).err, "switch")

\* switch *mode
CliSwitch ==
    /\ mode = "cli"
    /\ pc = "switch"
    /\ CliStatement(IF config.Mode \in {"extract", "export", "preview"} THEN NoErr
                 ELSE <<"Unknown mode: " \o config.Mode>>,
                 CASE config.Mode = "export"  -> "NewExporter"
                   [] config.Mode = "preview" -> "NewServer"
                   [] OTHER                   -> "return")

\* exp, err := exporter.NewExporter(*format, exportConfig)
CliNewExporter ==
    /\ mode = "cli"
    /\ pc = "NewExporter"
    /\ CliStatement(IF failQ = "exporter" THEN <<"unsupported format">> ELSE NoErr, "Create")

\* f, err := os.Create(filename); defer f.Close()
CliCreate ==
    /\ mode = "cli"
    /\ pc = "Create"
    /\ CliStatement(IF failQ = "create" THEN <<"permission denied">> ELSE NoErr,
                 "Export")

\* if err := exp.Export(schema, f); err != nil { log.Fatalf(...) }
CliExport ==
    /\ mode = "cli"
    /\ pc = "Export"
    /\ CliStatement(IF failQ = "export" THEN <<"write failed">> ELSE NoErr, "return")

\* server, err := ui.NewServer(schema, exportConfig)
CliNewServer ==
    /\ mode = "cli"
    /\ pc = "NewServer"
    /\ CliStatement(IF failQ = "server" THEN <<"template error">> ELSE NoErr,
                 "ListenAndServe")

\* http.ListenAndServe returns only with an error: log.Fatalf("Server error: ...")
CliListenAndServe ==
    /\ mode = "cli"
    /\ pc = "ListenAndServe"
    /\ CliStatement(<<"http: Server closed">>, "return")

\* main returns: the deferred calls run, ext.Close() last, and the process exits
CliReturn ==
    /\ mode = "cli"
    /\ pc = "return"
    /\ db' = CloseDB(db)
    /\ closeCalls' = closeCalls + 1
    /\ pc' = "exited"
    /\ exitCode' = Ptr(0)
    /\ UNCHANGED <<adapter, schemaFilter, ret>>
    /\ CliFrame

(***************************************************************************)
(* An adapter's Connect and Close as a caller may invoke them.             *)
(***************************************************************************)
\* the run-time panic of a method call through a nil *sql.DB
NilDereference == <<"panic: runtime error: invalid memory address or nil pointer dereference">>

\* the record of a call in trace
Call(step, err) == [step |-> step, err |-> err, ctxDone |-> cancelled, cancelAt |-> Nil]

\* e.db.PingContext(ctx): a nil *sql.DB is dereferenced, a closed pool refuses
Connect ==
    /\ mode = "lifecycle"
    /\ pc = "ready"
    /\ Len(trace) < MaxCalls
    /\ IF db = "nil"
       THEN /\ pc' = "panicked"
            /\ trace' = Append(trace, Call("Connect", NilDereference))
            /\ UNCHANGED ret
       ELSE /\ ret' = [err |-> IF db = "closed" THEN <<"sql: database is closed">>
                               ELSE IF failQ = "ping" THEN <<"connection refused">>
                               ELSE NoErr]
            /\ trace' = Append(trace, Call("Connect", ret'.err))
            /\ pc' = pc
    /\ UNCHANGED <<db, closeCalls, exitCode, adapter, config, schemaFilter, catalog,
                   failQ, rowOrder, cancelled, mode, schema, inspected, violations, exporter, written, requests>>

\* Close: if e.db != nil { return e.db.Close() }; return nil
Close ==
    /\ mode = "lifecycle"
    /\ pc = "ready"
    /\ Len(trace) < MaxCalls
    /\ closeCalls' = closeCalls + 1
    /\ IF CloseDB(db) = "panic"
       THEN /\ pc' = "panicked"
            /\ trace' = Append(trace, Call("Close", NilDereference))
            /\ UNCHANGED <<db, ret>>
       ELSE /\ db' = CloseDB(db)
            /\ ret' = [err |-> NoErr]
            /\ trace' = Append(trace, Call("Close", NoErr))
            /\ pc' = pc
    /\ UNCHANGED <<exitCode, adapter, config, schemaFilter, catalog, failQ, rowOrder,
                   cancelled, mode, schema, inspected, violations, exporter, written, requests>>

(***************************************************************************)
(* A caller of the exporter package.                                       *)
(***************************************************************************)
\* the frame of the statements of an exporter's caller
ExportFrame ==
    UNCHANGED <<adapter, config, schemaFilter, catalog, failQ, rowOrder, cancelled, mode,
                trace, inspected, violations, db, closeCalls, exitCode, requests>>

\* the caller has the result r of NewExporter
CreatedExporter(r) ==
    /\ exporter' = r.exporter
    /\ ret' = r
    /\ pc' = IF r.err = NoErr THEN "Export" ELSE "unsupported"
    /\ UNCHANGED <<schema, written>>
    /\ ExportFrame

\* exp, err := exporter.NewExporter(format, cfg)
CallNewExporter ==
    /\ mode = "export"
    /\ pc = "NewExporter"
    /\ CreatedExporter(NewExporter(config.Format, config.Export))

\* the caller has the result r of Export
Exported(r) ==
    /\ schema' = r.schema
    /\ written' = r.out
    /\ ret' = [exporter |-> exporter, err |-> r.err]
    /\ pc' = "exported"
    /\ UNCHANGED exporter
    /\ ExportFrame

\* err := exp.Export(schema, w)
CallExport ==
    /\ mode = "export"
    /\ pc = "Export"
    /\ \E overflow \in BOOLEAN :
          Exported(Export(exporter[1], schema, config.Writer, overflow))

(***************************************************************************)
(* The preview server: one handler invocation per request, each on its own *)
(* goroutine, all sharing the Server's schema and config.                  *)
(***************************************************************************)
\* RegisterRoutes: the handler the mux picks for a path; the pattern "/"
\* matches every path no longer pattern matches
Route(path) ==
    CASE path = "/export/excel" -> "handleExportExcel"
      [] path = "/export/word"  -> "handleExportWord"
      [] OTHER                  -> "handlePreview"

\* Exporter.MimeType
MimeType(exp) ==
    CASE exp.format = "xlsx" ->
             "application/vnd.openxmlformats-officedocument.spreadsheetml.sheet"
      [] exp.format = "docx" ->
             "application/vnd.openxmlformats-officedocument.wordprocessingml.document"
      [] exp.format = "html" -> "text/html"

\* the frame of a handler's step: it touches its own request only
ServeFrame ==
    UNCHANGED <<adapter, config, schemaFilter, catalog, failQ, rowOrder, cancelled, mode,
                pc, trace, ret, inspected, violations, db, closeCalls, exitCode,
                exporter, written>>

\* the mux accepts request r for a path on a connection and picks its handler
ServeHTTP(r) ==
    /\ mode = "serve"
    /\ requests[r].pc = "idle"
    /\ \E path \in Paths, conn \in Writers :
          requests' = [requests EXCEPT ![r] =
              [@ EXCEPT !.path = path, !.conn = conn, !.handler = Route(path),
                        !.pc = IF Route(path) = "handlePreview"
                               THEN "ExecuteTemplate" ELSE "NewExporter"]]
    /\ UNCHANGED schema
    /\ ServeFrame

\* the response to request r once its handler has the result res of writing the
\* document: http.Error answers 500 when that failed
Respond(r, contentType, res) ==
    /\ requests' = [requests EXCEPT ![r] =
           [@ EXCEPT !.pc = "done", !.contentType = contentType, !.body = res.out,
                     !.status = IF res.err = NoErr THEN 200 ELSE 500]]
    /\ schema' = res.schema
    /\ ServeFrame

\* s.template.ExecuteTemplate(w, "preview.html", s.schema): the page is the
\* template applied to the Schema it is handed, kept here as that Schema
ExecuteTemplate(sch, w) ==
    LET Written(res) == [schema |-> sch, out |-> res.out, err |-> res.err]
    IN  Written(WriteTo(w, <<[name |-> "preview.html", rows |-> <<sch>>]>>))

\* Server.handlePreview
handlePreview(r) ==
    /\ mode = "serve"
    /\ requests[r].handler = "handlePreview"
    /\ requests[r].pc = "ExecuteTemplate"
    /\ Respond(r, "text/html; charset=utf-8", ExecuteTemplate(schema, requests[r].conn))

\* the first statement of an export handler: exp, err := exporter.NewExporter(tag, s.config)
HandlerNewExporter(r, created) ==
    /\ requests' = [requests EXCEPT ![r] =
           IF created.err = NoErr
           THEN [@ EXCEPT !.exporter = created.exporter, !.pc = "Export"]
           ELSE [@ EXCEPT !.status = 500, !.pc = "done"]]
    /\ UNCHANGED schema
    /\ ServeFrame

\* the rest of an export handler: the headers, then exp.Export(s.schema, w)
HandlerExport(r, overflow) ==
    Respond(r, MimeType(requests[r].exporter[1]),
            Export(requests[r].exporter[1], schema, requests[r].conn, overflow))

\* Server.handleExportExcel
handleExportExcel(r) ==
    /\ mode = "serve"
    /\ requests[r].handler = "handleExportExcel"
    /\ IF requests[r].pc = "NewExporter"
       THEN HandlerNewExporter(r, NewExporter("xlsx", config.Export))
       ELSE /\ requests[r].pc = "Export"
            /\ \E overflow \in BOOLEAN : HandlerExport(r, overflow)

\* Server.handleExportWord
handleExportWord(r) ==
    /\ mode = "serve"
    /\ requests[r].handler = "handleExportWord"
    /\ IF requests[r].pc = "NewExporter"
       THEN HandlerNewExporter(r, NewExporter("docx", config.Export))
       ELSE /\ requests[r].pc = "Export"
            /\ \E overflow \in BOOLEAN : HandlerExport(r, overflow)

Next ==
    \/ ExtractSchema
    \/ CallGetDatabaseInfo
    \/ CallGetTables
    \/ CallGetViews
    \/ CallGetRoutines
    \/ CallGetSequences
    \/ CallGetTriggers
    \/ CallGetSynonyms
    \/ AggregateIndexes
    \/ Cancel
    \/ ValidatorInspect
    \/ ValidatorReport
    \/ CallNewDBExtractor
    \/ CliConnect
    \/ CliExtractSchema
    \/ CliSwitch
    \/ CliNewExporter
    \/ CliCreate
    \/ CliExport
    \/ CliNewServer
    \/ CliListenAndServe
    \/ CliReturn
    \/ Connect
    \/ Close
    \/ CallNewExporter
    \/ CallExport
    \/ \E r \in 1..MaxRequests : ServeHTTP(r)
    \/ \E r \in 1..MaxRequests : handlePreview(r)
    \/ \E r \in 1..MaxRequests : handleExportExcel(r)
    \/ \E r \in 1..MaxRequests : handleExportWord(r)

Spec == Init /\ [][Next]_vars

\* ExtractSchema leaves the statement it is at: the step of its goroutine, which
\* is every step of Next that changes pc while an extraction is under way
Advance ==
    /\ mode = "extract"
    /\ pc # "returned"
    /\ pc' \in {"returned"} \cup Range(OracleExtractSchema)

\* ExtractSchema runs on one goroutine and every query it issues returns (with
\* rows or with an error), so it does not stay at a statement for ever
FairSpec == Spec /\ WF_pc(Advance)

\* shape of the control state
TypeOK ==
    /\ pc \in {"idle", "returned", "inspect", "validated"} \cup Range(OracleExtractSchema)
              \cup {"NewDBExtractor", "Connect", "ExtractSchema", "switch", "NewExporter",
                    "Create", "Export", "NewServer", "ListenAndServe", "return", "exited",
                    "ready", "panicked", "unsupported", "exported"}
    /\ exporter # Nil => exporter[1].format \in Range(GetSupportedFormats)
    /\ \A r \in 1..Len(requests) :
          requests[r].pc \in {"idle", "NewExporter", "Export", "ExecuteTemplate", "done"}
    /\ db \in {"nil", "open", "closed"}
    /\ closeCalls \in 0..MaxCalls
    /\ cancelled \in BOOLEAN
    /\ inspected \in 0..Len(StructOrder)

(***************************************************************************)
(* Properties.                                                             *)
(***************************************************************************)
\* the order of steps the specification prescribes for ExtractSchema
ExtractionOrder ==
    <<"GetDatabaseInfo", "GetTables", "GetViews", "GetRoutines", "GetSequences",
      "GetTriggers", "GetSynonyms", "AggregateIndexes">>

Extracting == mode = "extract"
Returned == mode = "extract" /\ pc = "returned"

\* C1: in every adapter the steps ExtractSchema has invoked so far are a prefix
\* of GetDatabaseInfo, GetTables, GetViews, GetRoutines, GetSequences,
\* GetTriggers, GetSynonyms, index aggregation: that order, each at most once,
\* and each one but the last returned without error.
C1_StepOrder ==
    Extracting =>
        /\ Len(trace) <= Len(ExtractionOrder)
        /\ \A i \in 1..Len(trace) : trace[i].step = ExtractionOrder[i]
        /\ \A i \in 1..(Len(trace) - 1) : trace[i].err = NoErr
        /\ pc \in Range(ExtractionOrder) => pc = ExtractionOrder[Len(trace) + 1]

\* a run that went through all eight steps
C1_Witness ==
    /\ Returned
    /\ Len(trace) = Len(ExtractionOrder)
    /\ ret.err = NoErr

\* C2: when a step returned an error ExtractSchema has returned a nil Schema
\* with a non-nil error and that step is the last one invoked; a non-nil
\* Schema is returned only after every step succeeded.
C2_NilSchemaOnError ==
    Extracting =>
        /\ \A i \in 1..Len(trace) :
              trace[i].err # NoErr =>
                  /\ i = Len(trace)
                  /\ pc = "returned"
                  /\ ret.schema = Nil
                  /\ ret.err # NoErr
        /\ (pc = "returned" /\ ret.schema # Nil) =>
              /\ \A i \in 1..Len(trace) : trace[i].err = NoErr
              /\ {trace[i].step : i \in 1..Len(trace)} = Range(ExtractionOrder)
              /\ ret.err = NoErr
        /\ pc = "returned" => (ret.schema = Nil) # (ret.err = NoErr)

\* a run aborted by a failing step after earlier steps had filled the Schema
C2_Witness ==
    /\ Returned
    /\ Len(trace) = 4
    /\ trace[4].err # NoErr
    /\ schema.Tables.elems # <<>>
    /\ ret.schema = Nil

\* ctx was not cancelled before or during any call of the run
Undisturbed ==
    \A i \in 1..Len(trace) : ~trace[i].ctxDone /\ trace[i].cancelAt = Nil

\* the run's catalog with other body texts, read over an undisturbed connection
TwinRun(viewDef, body) ==
    ExtractSchemaOf(Extractor(adapter, schemaFilter,
                              WithBodyTexts(catalog, viewDef, body),
                              failQ, FALSE, rowOrder))

\* C3: catalogs that differ only in the body or definition text of views,
\* routines and triggers yield the same result of ExtractSchema in every
\* adapter.
C3_BodyTextNotCaptured ==
    (Returned /\ Undisturbed) =>
        \A viewDef \in BodyTexts, body \in BodyTexts : TwinRun(viewDef, body) = ret

\* C4: no struct of the model declares a field named Body, Definition,
\* Script, Text or Source; the validator finds no violation and passes.
C4_NoSourceCodeFields ==
    /\ \A s \in Range(StructOrder) :
          StructFields[s] \cap {"Body", "Definition", "Script", "Text", "Source"} = {}
    /\ violations = {}
    /\ pc = "validated" => ret.Passed

\* the validator has inspected every struct and reported
C4_Witness ==
    /\ mode = "validate"
    /\ pc = "validated"
    /\ inspected = Len(StructOrder)
    /\ Cardinality(DOMAIN StructFields) = 10

\* the columns of every table and view extracted so far
ExtractedColumns ==
    UNION ({Range(schema.Tables.elems[i].Columns) : i \in 1..Len(schema.Tables.elems)}
           \cup {Range(schema.Views.elems[i].Columns) : i \in 1..Len(schema.Views.elems)})

\* C5: every extracted column flagged as a foreign key names both its target
\* table and target column, and every other column names neither.
C5_FKTargetsMatchFlag ==
    Extracting =>
        \A c \in ExtractedColumns :
            IF c.IsForeignKey
            THEN c.FKTargetTable # "" /\ c.FKTargetColumn # ""
            ELSE c.FKTargetTable = "" /\ c.FKTargetColumn = ""

OwnersOf(slice) == {slice.elems[i].Owner : i \in 1..Len(slice.elems)}

\* the owners of all elements of all seven collections of a Schema
SchemaOwners(sch) ==
    OwnersOf(sch.Tables) \cup OwnersOf(sch.Views) \cup OwnersOf(sch.Routines)
    \cup OwnersOf(sch.Sequences) \cup OwnersOf(sch.Triggers)
    \cup OwnersOf(sch.Synonyms) \cup OwnersOf(sch.Indexes)

\* C6: with a non-empty schema filter every element of every collection of
\* the Schema has an owner that is a member of the filter.
C6_FilterExcludesOtherOwners ==
    (Extracting /\ config.SchemaFilter # <<>>) =>
        SchemaOwners(schema) \subseteq Range(config.SchemaFilter)

\* a complete Oracle extraction under the filter {HR, dbo} from a catalog that
\* also holds SYS, public and PUBLIC objects
C6_Witness ==
    /\ Returned
    /\ ret.err = NoErr
    /\ adapter = "oracle"
    /\ config.SchemaFilter = <<"HR", "dbo">>
    /\ \E i \in 1..Len(catalog.synonyms) : catalog.synonyms[i].owner \notin {"HR", "dbo"}
    /\ \A coll \in {schema.Tables, schema.Views, schema.Routines, schema.Sequences,
                    schema.Triggers, schema.Synonyms, schema.Indexes} :
          OwnersOf(coll) = {"HR", "dbo"}

\* the single schema the specification gives each dialect for an empty filter
DefaultSchema ==
    CASE adapter = "mysql"    -> config.Database
      [] adapter = "postgres" -> "public"
      [] adapter = "mssql"    -> "dbo"
      [] adapter = "oracle"   -> config.Username

\* C7: with an empty configured schema filter every adapter returns objects
\* of its one default schema only.
C7_DefaultSchemaOnly ==
    (Extracting /\ config.SchemaFilter = <<>>) =>
        SchemaOwners(schema) \subseteq {DefaultSchema}

\* the adapters whose buildSignature renders the argument list itself
SignatureBuilders == {"mysql", "oracle", "mssql"}

\* an argument list rendered "<mode> <argname> <datatype>, ..."
RECURSIVE ModeFirstList(_)
ModeFirstList(args) ==
    IF args = <<>> THEN ""
    ELSE Head(args).Mode \o " " \o Head(args).Name \o " " \o Head(args).DataType
         \o (IF Tail(args) = <<>> THEN "" ELSE ", " \o ModeFirstList(Tail(args)))

\* an argument list rendered "<argname> <mode> <datatype>, ..."
RECURSIVE NameFirstList(_)
NameFirstList(args) ==
    IF args = <<>> THEN ""
    ELSE Head(args).Name \o " " \o Head(args).Mode \o " " \o Head(args).DataType
         \o (IF Tail(args) = <<>> THEN "" ELSE ", " \o NameFirstList(Tail(args)))

ExtractedRoutines == Range(schema.Routines.elems)

ArgumentsAscending(r) ==
    \A i \in 1..Len(r.Arguments), j \in 1..Len(r.Arguments) :
        i < j => r.Arguments[i].Position < r.Arguments[j].Position

C9_RaiseSalarySignature ==
    Extracting =>
        \A r \in ExtractedRoutines :
            r.Name = "RAISE_SALARY" =>
                r.Signature = "PROCEDURE RAISE_SALARY(EMP_ID IN NUMBER, PCT IN NUMBER)"

\* the calls of operations whose concept the dialect lacks
LacksConcept(a, step) ==
    \/ a = "mysql" /\ step \in {"GetSequences", "GetSynonyms"}
    \/ a = "postgres" /\ step = "GetSynonyms"

\* C10: MySQL GetSequences, MySQL GetSynonyms and PostgreSQL GetSynonyms
\* return an empty non-nil slice and no error whatever the state of the
\* connection and of the context, in the run and when called on their own.
C10_AbsentConceptEmptyNotNil ==
    /\ \A i \in 1..Len(trace) : LacksConcept(adapter, trace[i].step) => trace[i].err = NoErr
    /\ \A i \in 1..Len(trace) :
          (adapter = "mysql" /\ trace[i].step = "GetSequences") =>
              ~schema.Sequences.isNil /\ schema.Sequences.elems = <<>>
    /\ \A i \in 1..Len(trace) :
          LacksConcept(adapter, "GetSynonyms") /\ trace[i].step = "GetSynonyms" =>
              ~schema.Synonyms.isNil /\ schema.Synonyms.elems = <<>>
    /\ \A r \in {MySQLGetSequences(Self), MySQLGetSynonyms(Self), PostgresGetSynonyms(Self)} :
          r.err = NoErr /\ ~r.val.isNil /\ r.val.elems = <<>>

\* MySQL GetSequences was called with the context already cancelled
C10_Witness ==
    /\ Extracting
    /\ adapter = "mysql"
    /\ \E i \in 1..Len(trace) :
          trace[i].step = "GetSequences" /\ trace[i].ctxDone /\ trace[i].err = NoErr

(***************************************************************************)
(* Cancellation while GetTables is running.                                *)
(***************************************************************************)
\* errors.Is(err, context.Canceled): the chain ends in the context's error
IsCancellation(err) == err # NoErr /\ err[Len(err)] = "context canceled"

\* ctx was cancelled while GetTables was executing
CancelledDuringGetTables ==
    \E i \in 1..Len(trace) : trace[i].step = "GetTables" /\ trace[i].cancelAt # Nil

\* C11: when ctx is cancelled while GetTables is executing (during the table
\* query or a nested column, constraint, FK-target or index query, or between
\* them), ExtractSchema eventually returns a nil Schema and an error that is
\* the cancellation, and it never returns a Schema after such a cancellation.
C11_CancelDuringGetTables ==
    /\ CancelledDuringGetTables ~>
           (Returned /\ ret.schema = Nil /\ IsCancellation(ret.err))
    /\ [](CancelledDuringGetTables /\ Returned => ret.schema = Nil)

\* ctx was cancelled during an FK-target lookup, whose error the column loop
\* drops, and ExtractSchema has returned nil and the cancellation
C11_Witness ==
    /\ Returned
    /\ ret.schema = Nil
    /\ IsCancellation(ret.err)
    /\ \E i \in 1..Len(trace) :
           /\ trace[i].step = "GetTables"
           /\ trace[i].cancelAt # Nil
           /\ trace[i].cancelAt[1].rank = QueryRank("fktarget")

(***************************************************************************)
(* The root-level Indexes collection.                                      *)
(***************************************************************************)
\* the number of indexes on the tables before the t-th
RECURSIVE IndexOffset(_, _)
IndexOffset(tables, t) ==
    IF t <= 1 THEN 0
    ELSE IndexOffset(tables, t - 1) + Len(tables[t - 1].Indexes)

\* C12: in every Schema ExtractSchema returns, Schema.Indexes is the
\* concatenation, in Tables order, of each Table's Indexes: the k-th index of
\* the t-th table is, field for field, the entry at that place of
\* Schema.Indexes, and Schema.Indexes has no entry beyond those.
C12_RootIndexesAreTableIndexes ==
    (Returned /\ ret.err = NoErr) =>
        LET tables == ret.schema[1].Tables.elems
            indexes == ret.schema[1].Indexes.elems
        IN  /\ Len(indexes) = IndexOffset(tables, Len(tables) + 1)
            /\ \A t \in 1..Len(tables) : \A k \in 1..Len(tables[t].Indexes) :
                   indexes[IndexOffset(tables, t) + k] = tables[t].Indexes[k]

\* a Schema was returned with several tables that carry indexes
C12_Witness ==
    /\ Returned
    /\ ret.err = NoErr
    /\ Len(ret.schema[1].Tables.elems) >= 2
    /\ \A t \in 1..Len(ret.schema[1].Tables.elems) :
           Len(ret.schema[1].Tables.elems[t].Indexes) >= 2
    /\ ret.schema[1].Tables.elems[1].Indexes # ret.schema[1].Tables.elems[2].Indexes

(***************************************************************************)
(* Index columns.                                                          *)
(***************************************************************************)
\* the catalog's index behind an extracted model.Index (MySQL names the
\* primary key's index PRIMARY)
CatalogIndexOf(idx) ==
    CHOOSE c \in Range(TableIndexes(catalog, idx.Owner, idx.TableName)) :
        \/ c.name = idx.Name
        \/ idx.Name = "PRIMARY" /\ c.primary

\* Columns is the key columns, the one with key sequence n at place n
KeyColumnsInOrder(idx) ==
    /\ Len(idx.Columns) = Len(CatalogIndexOf(idx).keys)
    /\ \A key \in Range(CatalogIndexOf(idx).keys) : idx.Columns[key.ordinal] = key.col

\* C13: for every Index of a returned Schema, Columns lists the index's key
\* columns in ascending order of the catalog's key-sequence field, each key
\* column exactly once.
C13_IndexColumnsInKeyOrder ==
    (Returned /\ ret.err = NoErr) =>
        \A i \in 1..Len(ret.schema[1].Indexes.elems) :
            KeyColumnsInOrder(ret.schema[1].Indexes.elems[i])

\* the same for the dialects whose catalogs have no included columns
C13_KeyOrderWithoutIncludedColumns ==
    (Returned /\ ret.err = NoErr /\ adapter \in {"oracle", "mysql"}) =>
        \A i \in 1..Len(ret.schema[1].Indexes.elems) :
            KeyColumnsInOrder(ret.schema[1].Indexes.elems[i])

(***************************************************************************)
(* A second run against the unmodified catalog.                            *)
(***************************************************************************)
\* another row order the database may use for a query that has no ORDER BY
OtherOrder == IF rowOrder = "fwd" THEN "rev" ELSE "fwd"

\* ExtractSchema again: same adapter, same configuration, same catalog
SecondRun ==
    ExtractSchemaOf(Extractor(adapter, schemaFilter, catalog, failQ, FALSE, OtherOrder))

\* a Schema without its volatile field Sequence.LastNumber (ExtractedAt is not modelled)
WithoutVolatile(sch) ==
    [sch EXCEPT !.Sequences.elems =
        [i \in 1..Len(sch.Sequences.elems) |->
            [sch.Sequences.elems[i] EXCEPT !.LastNumber = 0]]]

\* C14: two ExtractSchema runs of the same adapter against an unmodified catalog
\* return structurally equal Schemas, apart from ExtractedAt and
\* Sequence.LastNumber, whatever the row order of the queries without ORDER BY.
C14_RunsStructurallyEqual ==
    (Returned /\ Undisturbed /\ ret.err = NoErr) =>
        /\ SecondRun.err = NoErr
        /\ WithoutVolatile(SecondRun.schema[1]) = WithoutVolatile(ret.schema[1])

\* the two runs do agree on the tables, whose query and nested queries are ordered
C14_TablesEqual ==
    (Returned /\ Undisturbed /\ ret.err = NoErr /\ catalog.tables[1].cols[2].fks = <<>>) =>
        SecondRun.schema[1].Tables = ret.schema[1].Tables

(***************************************************************************)
(* The adapter factory.                                                    *)
(***************************************************************************)
\* the dialect each tag of DatabaseTypes stands for, "none" when it stands for none
ExpectedDialect(dbType) ==
    CASE dbType \in {"oracle", " Oracle\t"}                      -> "oracle"
      [] dbType \in {"mysql", "MYSQL "}                          -> "mysql"
      [] dbType \in {"postgresql", "Postgres", "pg", "\nPG"}     -> "postgres"
      [] dbType \in {"mssql", "sqlserver", " SqlServer"}         -> "mssql"
      [] OTHER                                                   -> "none"

\* main is past its call of NewDBExtractor
FactoryCalled == mode = "cli" /\ pc # "NewDBExtractor"

C15_WitnessUnsupported ==
    /\ FactoryCalled
    /\ config.Type = "ora cle"
    /\ ret.adapter = Nil
    /\ ret.err = <<"unsupported database type: ora cle (supported: oracle, mysql, postgresql, mssql)">>

(***************************************************************************)
(* Close.                                                                  *)
(***************************************************************************)
\* the Close calls made so far all returned nil and none panicked
ClosesReturned ==
    \A i \in 1..Len(trace) : trace[i].step = "Close" => trace[i].err = NoErr

\* C16: for every adapter, Close before any Connect and Close after a previous
\* Close return without panicking, and after one or more Close calls the
\* adapter is in the state a single Close leaves: its pool closed (no handle
\* when it never had one).
C16_CloseIdempotent ==
    (mode = "lifecycle" /\ closeCalls >= 1 /\ trace # <<>> /\ trace[Len(trace)].step = "Close") =>
        /\ ClosesReturned
        /\ pc = "ready"
        /\ db = IF config.Handle = "nil" THEN "nil" ELSE "closed"
        /\ ret.err = NoErr

\* every Close after the first one leaves the adapter as it found it
C16_CloseAgainChangesNothing ==
    [][(mode = "lifecycle" /\ closeCalls >= 1 /\ closeCalls' = closeCalls + 1)
          => (db' = db /\ pc' = pc)]_vars

\* Close was called before any Connect, and again, on a never-connected adapter
C16_Witness ==
    /\ mode = "lifecycle"
    /\ closeCalls >= 2
    /\ \A i \in 1..Len(trace) : trace[i].step = "Close"
    /\ db = "closed"
    /\ pc = "ready"

(***************************************************************************)
(* The CLI releases the adapter.                                           *)
(***************************************************************************)
\* NewDBExtractor has returned an adapter to main
AdapterCreated == FactoryCalled /\ db # "nil"

\* C18: in every run of the CLI, once NewDBExtractor has returned an adapter,
\* Close has been called on it when the process terminates.
C18_CloseBeforeExit ==
    (AdapterCreated /\ exitCode # Nil) => closeCalls >= 1

\* when main returns, the deferred Close has run
C18_CloseOnReturn ==
    (mode = "cli" /\ exitCode = Ptr(0)) => (closeCalls = 1 /\ db = "closed")

(***************************************************************************)
(* Failing catalog queries.                                                *)
(***************************************************************************)
\* the kinds of query an adapter issues on every complete run over the catalog
\* of the model, the FK-target lookup apart
AlwaysIssued(a) ==
    {"dbinfo", "tables", "columns", "indexes", "indexcols", "views", "routines", "triggers"}
    \cup (IF a # "postgres" THEN {"args"} ELSE {})
    \cup (IF a # "mysql" THEN {"sequences"} ELSE {})
    \cup (IF a \in {"oracle", "mssql"} THEN {"synonyms"} ELSE {})
    \cup (IF a = "oracle" THEN {"constraints"} ELSE {})

\* GetTables met a column flagged as a foreign key; the PostgreSQL, MySQL and
\* MSSQL adapters then look its target up
FKLookupIssued ==
    /\ adapter # "oracle"
    /\ \E t \in 1..Len(schema.Tables.elems) :
          \E c \in 1..Len(schema.Tables.elems[t].Columns) :
              schema.Tables.elems[t].Columns[c].IsForeignKey

\* the query the database rejects was issued during the run
FailedQueryIssued ==
    \/ failQ \in AlwaysIssued(adapter)
    \/ failQ = "fktarget" /\ FKLookupIssued

\* C17: whenever a catalog query issued during a Get* call fails (the nested
\* column, constraint, FK-target, index and argument queries included),
\* ExtractSchema returns a non-nil error.
C17_NoErrorSwallowed ==
    (Returned /\ Undisturbed /\ FailedQueryIssued) => ret.err # NoErr

\* every failing query other than the FK-target lookup does surface, with the
\* driver's error at the end of the chain
C17_OtherFailuresPropagate ==
    (Returned /\ Undisturbed /\ failQ \in AlwaysIssued(adapter)) =>
        (ret.err # NoErr /\ ret.err[Len(ret.err)] = "query failed" /\ ret.schema = Nil)

\* ---------------------------------------------------------------------------
\* Routine and trigger enumerations
\* ---------------------------------------------------------------------------

RoutineTypes == {"PROCEDURE", "FUNCTION"}

RoutineWellTyped(r) ==
    /\ r.Type \in RoutineTypes
    /\ (r.ReturnType # "" => r.Type = "FUNCTION")

\* C19: every routine GetRoutines returned has Type "PROCEDURE" or "FUNCTION",
\* and a non-empty ReturnType only when its Type is "FUNCTION".
C19_RoutineTypeAndReturnType ==
    Extracting => \A r \in ExtractedRoutines : RoutineWellTyped(r)

\* the adapters that select the routine type as PROCEDURE or FUNCTION satisfy it
C19_TypedByCaseOrCatalog ==
    (Extracting /\ adapter # "mssql") => \A r \in ExtractedRoutines : RoutineWellTyped(r)

ExtractedTriggers == Range(schema.Triggers.elems)

TriggerTimings == {"BEFORE", "AFTER", "INSTEAD OF"}

TriggerLevels == {"ROW", "STATEMENT"}

TriggerStatuses == {"ENABLED", "DISABLED"}

\* C20: every trigger GetTriggers returned has Timing BEFORE, AFTER or
\* INSTEAD OF, Level ROW or STATEMENT and Status ENABLED or DISABLED, whatever
\* trigger type the catalog reports.
C20_TriggerEnumerations ==
    Extracting =>
        \A t \in ExtractedTriggers :
            /\ t.Timing \in TriggerTimings
            /\ t.Level \in TriggerLevels
            /\ t.Status \in TriggerStatuses

\* Level and Status stay within their enumerations for every adapter
C20_LevelAndStatusEnumerated ==
    Extracting =>
        \A t \in ExtractedTriggers :
            t.Level \in TriggerLevels /\ t.Status \in TriggerStatuses

\* ---------------------------------------------------------------------------
\* The return-type suffix of function signatures
\* ---------------------------------------------------------------------------

\* strings.HasSuffix
HasSuffix(s, suffix) ==
    Len(s) >= Len(suffix) /\ SubSeq(s, Len(s) - Len(suffix) + 1, Len(s)) = suffix

\* the placeholder oracle's buildSignature writes in place of the return type
ReturnTypePlaceholder == "<type>"

ReturnsSuffix(r) ==
    \/ HasSuffix(r.Signature, " RETURNS " \o r.ReturnType)
    \/ HasSuffix(r.Signature, " " \o ReturnTypePlaceholder)

\* C22: every FUNCTION's Signature ends with " RETURNS <its ReturnType>" or with
\* the placeholder token, and no procedure's Signature carries such a suffix.
C22_FunctionSignatureSuffix ==
    Extracting =>
        \A r \in ExtractedRoutines :
            /\ r.Type = "FUNCTION" => ReturnsSuffix(r)
            /\ r.Type # "FUNCTION" => ~Contains(r.Signature, " RETURN")

\* the adapters other than MySQL do end their function signatures that way,
\* and no adapter gives a procedure the suffix
C22_SuffixOutsideMySQL ==
    Extracting =>
        \A r \in ExtractedRoutines :
            /\ (r.Type = "FUNCTION" /\ adapter # "mysql") => ReturnsSuffix(r)
            /\ r.Type # "FUNCTION" => ~Contains(r.Signature, " RETURN")

\* ---------------------------------------------------------------------------
\* Columns against the catalog's declarations
\* ---------------------------------------------------------------------------

\* the tables and views extracted so far
ExtractedRelations == Range(schema.Tables.elems) \cup Range(schema.Views.elems)

\* the catalog's rows of column `name` of the extracted table or view rel
CatalogColumn(rel, name) ==
    SelectSeq(RelationColumns(catalog, rel.Owner, rel.Name), LAMBDA cc : cc.name = name)

FlagMatchesCatalog(rel) ==
    \A i \in 1..Len(rel.Columns) :
        \A cc \in Range(CatalogColumn(rel, rel.Columns[i].Name)) :
            rel.Columns[i].IsForeignKey <=> (cc.fks # <<>>)

\* C23: a column is flagged IsForeignKey exactly when the catalog declares a
\* foreign-key constraint on it; membership of a non-unique index does not flag
\* it, and being the primary key as well does not unflag it.
C23_ForeignKeyFlagIsDeclared ==
    Extracting => \A rel \in ExtractedRelations : FlagMatchesCatalog(rel)

\* the adapters that read the flag from the constraint catalog satisfy it
C23_FlagFromConstraintCatalog ==
    (Extracting /\ adapter # "mysql") =>
        \A rel \in ExtractedRelations : FlagMatchesCatalog(rel)

PositionsDistinct(rel) ==
    \A i \in 1..Len(rel.Columns) :
        /\ rel.Columns[i].Position >= 1
        /\ \A j \in 1..Len(rel.Columns) :
               i # j => rel.Columns[i].Position # rel.Columns[j].Position

\* how often the column named name occurs in rel.Columns
Occurrences(rel, name) ==
    Cardinality({i \in 1..Len(rel.Columns) : rel.Columns[i].Name = name})

EachCatalogColumnOnce(rel) ==
    \A cc \in Range(RelationColumns(catalog, rel.Owner, rel.Name)) :
        Occurrences(rel, cc.name) = 1

\* C24: in every extracted table and view the Position values are at least 1
\* and pairwise distinct, and every catalog column occurs exactly once in
\* Columns, whatever number of unique indexes or foreign keys it belongs to.
C24_PositionsUniqueColumnsOnce ==
    Extracting =>
        \A rel \in ExtractedRelations : PositionsDistinct(rel) /\ EachCatalogColumnOnce(rel)

\* the adapters whose column query joins no constraint rows satisfy it
C24_OnceWithoutConstraintJoins ==
    (Extracting /\ adapter # "mssql") =>
        \A rel \in ExtractedRelations : PositionsDistinct(rel) /\ EachCatalogColumnOnce(rel)

\* ---------------------------------------------------------------------------
\* Foreign-key targets
\* ---------------------------------------------------------------------------

\* the first of a column's constraint rows in the catalog's natural row order
FirstConstraint(fks) == IF rowOrder = "fwd" THEN fks[1] ELSE fks[Len(fks)]

\* the table of constraint fk as an adapter may render it
TargetTableNames(fk) == {fk.refTable, fk.refOwner \o "." \o fk.refTable}

\* column c of table t reports the referenced column fk names for it
ReportsTarget(c, fk) ==
    /\ c.FKTargetColumn = fk.refCols[fk.pos]
    /\ c.FKTargetTable \in TargetTableNames(fk)

\* the FK-target lookups of the run were answered
LookupsAnswered == Undisturbed /\ failQ # "fktarget"

\* C26: a column that belongs to more than one foreign-key constraint reports
\* the target of the first constraint row the catalog returns for it.
C26_FirstConstraintWins ==
    (Extracting /\ LookupsAnswered) =>
        \A t \in Range(schema.Tables.elems) :
            \A i \in 1..Len(t.Columns) :
                \A cc \in Range(CatalogColumn(t, t.Columns[i].Name)) :
                    Len(cc.fks) > 1 => ReportsTarget(t.Columns[i], FirstConstraint(cc.fks))

\* the adapters that look the target up with a one-row query satisfy it
C26_FirstRowOfLookup ==
    (Extracting /\ LookupsAnswered /\ adapter # "oracle") =>
        \A t \in Range(schema.Tables.elems) :
            \A i \in 1..Len(t.Columns) :
                \A cc \in Range(CatalogColumn(t, t.Columns[i].Name)) :
                    Len(cc.fks) > 1 => ReportsTarget(t.Columns[i], FirstConstraint(cc.fks))

\* a constraint over several columns
Composite(fk) == Len(fk.refCols) > 1

\* C27: the k-th column of a composite foreign key reports the k-th referenced
\* column of that constraint and its referenced table.
C27_CompositeTargetByPosition ==
    (Extracting /\ LookupsAnswered) =>
        \A t \in Range(schema.Tables.elems) :
            \A i \in 1..Len(t.Columns) :
                \A cc \in Range(CatalogColumn(t, t.Columns[i].Name)) :
                    (t.Columns[i].IsForeignKey /\ Len(cc.fks) = 1 /\ Composite(cc.fks[1]))
                        => ReportsTarget(t.Columns[i], cc.fks[1])

\* the lookups that pair each constrained column with its own referenced column
\* (KEY_COLUMN_USAGE, sys.foreign_key_columns) satisfy it
C27_PairedLookups ==
    (Extracting /\ LookupsAnswered /\ adapter \in {"mysql", "mssql"}) =>
        \A t \in Range(schema.Tables.elems) :
            \A i \in 1..Len(t.Columns) :
                \A cc \in Range(CatalogColumn(t, t.Columns[i].Name)) :
                    (t.Columns[i].IsForeignKey /\ Len(cc.fks) = 1 /\ Composite(cc.fks[1]))
                        => ReportsTarget(t.Columns[i], cc.fks[1])

\* a foreign-key column whose lookup row names the referenced table and leaves
\* the referenced column NULL
NullTargetColumn(rel, c) ==
    \E cc \in Range(CatalogColumn(rel, c.Name)) :
        cc.fks # <<>> /\ \A k \in 1..Len(cc.fks) : ~cc.fks[k].colVisible

\* C29: on every extracted column FKTargetTable and FKTargetColumn are both
\* set or both empty, also when the catalog row carries NULLs or the lookup
\* failed.
C29_TargetsTogether ==
    Extracting =>
        \A c \in ExtractedColumns : (c.FKTargetTable = "") <=> (c.FKTargetColumn = "")

\* a flagged SQL Server column whose lookup row has a NULL referenced column:
\* neither target is set
C29_Witness ==
    /\ Extracting /\ adapter = "mssql" /\ failQ = "none" /\ Undisturbed
    /\ \E t \in Range(schema.Tables.elems) :
           \E i \in 1..Len(t.Columns) :
               /\ NullTargetColumn(t, t.Columns[i])
               /\ t.Columns[i].IsForeignKey
               /\ t.Columns[i].FKTargetTable = ""
               /\ t.Columns[i].FKTargetColumn = ""

\* a flagged column left without targets because its lookup failed
C29_WitnessLookupFailed ==
    /\ Extracting /\ failQ = "fktarget" /\ pc = "returned"
    /\ \E c \in ExtractedColumns :
           c.IsForeignKey /\ c.FKTargetTable = "" /\ c.FKTargetColumn = ""

\* a column with both targets set
C29_WitnessBothSet ==
    /\ Extracting
    /\ \E c \in ExtractedColumns : c.FKTargetTable # "" /\ c.FKTargetColumn # ""

\* ---------------------------------------------------------------------------
\* Error context
\* ---------------------------------------------------------------------------

\* an error that wraps the driver's error in at least one message of context
CarriesContext(err) == Len(err) > 1

\* C28: every error a Get* call or ExtractSchema returns carries context naming
\* what was being fetched, in every adapter and for every failing query.
C28_ErrorsCarryContext ==
    Extracting =>
        /\ \A i \in 1..Len(trace) : trace[i].err # NoErr => CarriesContext(trace[i].err)
        /\ (pc = "returned" /\ ret.err # NoErr) => CarriesContext(ret.err)

\* what the code does wrap: every error Oracle's ExtractSchema returns, and in
\* every adapter the failure of the table query itself
C28_WrappedByOracleAndTableQuery ==
    Extracting =>
        /\ (adapter = "oracle" /\ pc = "returned" /\ ret.err # NoErr)
               => CarriesContext(ret.err)
        /\ \A i \in 1..Len(trace) :
               (trace[i].step = "GetTables" /\ failQ = "tables" /\ Undisturbed
                /\ trace[i].err # NoErr)
                   => trace[i].err[1] = "failed to query tables"

\* ---------------------------------------------------------------------------
\* Queries in flight
\* ---------------------------------------------------------------------------

\* C25: during an extraction run at most one catalog query is in flight at any
\* time: a query is issued only when no earlier result set is still open.
C25_OneQueryInFlight ==
    Extracting => \A i \in 1..Len(trace) : trace[i].inFlight <= 1

\* the calls without nested queries do keep to one query at a time, and no
\* call has more than three in flight
C25_NestingBounded ==
    Extracting =>
        \A i \in 1..Len(trace) :
            /\ trace[i].inFlight <= 3
            /\ trace[i].step \in {"GetDatabaseInfo", "GetSequences", "GetTriggers",
                                  "GetSynonyms"} => trace[i].inFlight = 1

(***************************************************************************)
(* C21: the exporter factory and Export.                                   *)
(***************************************************************************)
\* strings.HasPrefix
HasPrefix(s, prefix) == Len(s) >= Len(prefix) /\ SubSeq(s, 1, Len(prefix)) = prefix

\* the caller of the exporter package has NewExporter's result
FactoryReturned == mode = "export" /\ pc # "NewExporter"

\* NewExporter refused the tag: a nil exporter and the "unsupported export
\* format" error
TagRefused ==
    /\ exporter = Nil
    /\ ret.err # NoErr
    /\ HasPrefix(ret.err[1], "unsupported export format")
    /\ pc = "unsupported"

\* NewExporter returned the exporter of format f, and Export to a writer that
\* accepts what it is given returned nil with something written
TagAccepted(f) ==
    /\ exporter # Nil
    /\ exporter[1].format = f
    /\ ret.exporter = exporter
    /\ pc = "Export" => ret.err = NoErr
    /\ (pc = "exported" /\ config.Writer = "ok") => ret.err = NoErr /\ Len(written) >= 1

\* C21: for each of the tags xlsx, html and docx NewExporter returns a non-nil
\* exporter with a nil error, and Export of a populated Schema to a writer
\* returns nil and writes at least one byte; for any other tag NewExporter
\* returns a nil exporter and an "unsupported export format" error.
C21_OnlyThreeTagsAccepted ==
    FactoryReturned =>
        IF config.Format \in {"xlsx", "html", "docx"}
        THEN TagAccepted(config.Format)
        ELSE TagRefused

\* C21: NewExporter trims the tag and lower-cases it; for xlsx or excel it then
\* returns the xlsx exporter, for docx or word the docx exporter, for html the
\* html exporter, each non-nil with a nil error, and Export of a populated
\* Schema to a writer that accepts every write returns nil and writes at least
\* one byte; for any other tag NewExporter returns a nil exporter and an
\* "unsupported export format" error.
C21_NormalisedTagsAndAliases ==
    FactoryReturned =>
        LET Accepts(tag) ==
                CASE tag \in {"xlsx", "excel"} -> TagAccepted("xlsx")
                  [] tag \in {"docx", "word"}  -> TagAccepted("docx")
                  [] tag = "html"              -> TagAccepted("html")
                  [] OTHER                     -> TagRefused
        IN  Accepts(ToLower(TrimSpace(config.Format)))

\* an alias in capitals and blanks went through NewExporter and Export
C21_Witness ==
    /\ mode = "export"
    /\ pc = "exported"
    /\ config.Format = " XLSX"
    /\ config.Writer = "ok"
    /\ exporter # Nil
    /\ ret.err = NoErr
    /\ Len(written) >= 1
    /\ Len(schema.Tables.elems) >= 1

(***************************************************************************)
(* C30: exporters and preview handlers leave the Schema alone.             *)
(***************************************************************************)
\* the Schema has been assembled and handed to its consumers
Assembled == mode \in {"export", "serve"}

\* request r has been answered
Answered(r) == requests[r].pc = "done"

\* two answered requests for the same handler over connections of the same kind
\* got the same document
SameDocument(r1, r2) ==
    (/\ Answered(r1)
     /\ Answered(r2)
     /\ requests[r1].handler = requests[r2].handler
     /\ requests[r1].conn = requests[r2].conn)
        => requests[r1].body = requests[r2].body

\* C30: once the Schema is assembled, no step of an exporter's Export (xlsx,
\* docx, html) and no step of the preview server's handlers (/, /export/excel,
\* /export/word) changes a field of it or of the Server's configuration, and
\* under every interleaving of concurrent requests on one Server two requests
\* for the same handler are answered with the same document.
C30_SchemaReadOnly ==
    /\ [][Assembled => (schema' = schema /\ config' = config)]_vars
    /\ [](mode = "serve" => \A r1, r2 \in 1..Len(requests) : SameDocument(r1, r2))

\* one request has its workbook while another, accepted on the same Server, is
\* between NewExporter and Export of the Word document
C30_Witness ==
    /\ mode = "serve"
    /\ \E r1, r2 \in 1..Len(requests) :
          /\ requests[r1].handler = "handleExportExcel"
          /\ Answered(r1)
          /\ requests[r1].status = 200
          /\ Len(requests[r1].body) >= 1
          /\ requests[r2].handler = "handleExportWord"
          /\ requests[r2].pc = "Export"
    /\ Len(schema.Tables.elems) >= 1
    /\ Len(schema.Indexes.elems) >= 1

\* both requests of a Server answered by the same handler, both preview pages
\* rendered
C30_WitnessSameHandler ==
    /\ mode = "serve"
    /\ \A r \in 1..Len(requests) :
          /\ requests[r].handler = "handlePreview"
          /\ Answered(r)
          /\ requests[r].status = 200
    /\ Len(requests) >= 2
====
